---- MODULE Spec2Model ----
(***************************************************************************)
(* A model of uitest's input router (src/src/mouse_event.rs) driving the   *)
(* button dispatch targets of src/src/view/button.rs.                      *)
(*                                                                         *)
(* Coordinates are logical pixels.  Physical cursor coordinates are even   *)
(* integers and the scale factor is 1 or 2, so that the division done by   *)
(* to_logical is exact.  Vector indices are 1-based here (index k of the   *)
(* model is index k-1 of the Rust Vec); the five button slots keep the     *)
(* source's indices 0..4.                                                  *)
(***************************************************************************)
EXTENDS Integers, Sequences, FiniteSets, TLC

VARIABLES
    cursor_position,   \* MouseEventRouter.cursor_position: NoPos or <<x, y>>
    scale_factor,      \* MouseEventRouter.scale_factor
    listeners,         \* MouseEventRouter.listeners: Seq of NoListener or a Listener
    bounds_changed,    \* MouseEventRouter.bounds_changed
    button_states,     \* MouseEventRouter.button_states: [0..4 -> BOOLEAN]
    router_alive,      \* a strong reference to the router (Arc) still exists
    panicked,          \* an unwrap() failed
    handles,           \* per registration: [index, object, live, dropped], the
                       \* handle's index and target, how many handles to it
                       \* (the original and its clones) exist, and whether one
                       \* of them was dropped
    next_object,       \* identity given to the next registered dispatch target
    dispatch_state,    \* ButtonDispatch.state of every dispatch target
    state_updated,     \* ButtonDispatch.state_updated of every dispatch target
    events,            \* notifications dispatched by the last operation, in order
    should_redraw,     \* value returned by the last window_event call
    last_hover,        \* per target: the last hover notification it received
    rescanned,         \* the last step was a RedrawRequested that found
                       \* bounds_changed set and scanned
    press_where,       \* per target and button slot: where the cursor was at the raw press
    bt_state,          \* a ButtonDispatch driven directly: its state
    bt_events,         \* ... the events fed to it so far
    bt_path,           \* ... the states it went through
    bt_trigger,        \* ... is_button_trigger of every event fed
    bt_legacy,         \* ... the states the ButtonDispatch of src/button.rs
                       \*     goes through when fed the same events
    bt_needs_updating, \* ... and its needs_updating
    lock_owner,        \* per Mutex of the router: the thread holding it, 0 if free
    thread_pc,         \* per thread: where it is in the operation it runs
    thread_op,         \* per thread: the router operation it runs
    callback_op,       \* per thread: what the dispatch callback it runs calls
    visited,           \* per thread: listeners visited by the scan it runs
    view_kind,         \* a leaf view: which of RectView, TextView, ImageView
    view_raw,          \* ... its `raw` GPU element exists
    view_needs_update, \* ... RectView.needs_update
    view_texture,      \* ... ImageView.texture is Some
    view_texture_updated, \* ... ImageView.texture_updated
    view_calls,        \* ... the View calls it received in the current frame
    root_context,      \* the context whose prepare_view ran last, or "none"
    canvas_size,       \* ... the logical size of the canvas it was given
    root_requested,    \* ... what the view's preferred_size returned to it
    root_bounds,       \* ... the bounds it assigned to the view and returned
    draw_outcome,      \* ... what its last draw did
    stack_kind,        \* a stack: Stack (layout/stack.rs) or StackView (view/stack.rs)
    axis,              \* ... its axis
    padding_type,      \* ... its padding_type
    fixed_padding,     \* ... its fixed_padding: NoPadding or a length
    alignment_alpha,   \* ... Stack.alignment_alpha
    alignment_beta,    \* ... Stack.alignment_beta
    shrink_together,   \* ... Stack.shrink_together
    finished,          \* ... StackBuilder::finish was called
    subviews,          \* ... per subview, the size its preferred_size returns
    subview_sizes,     \* ... the sizes recorded by the measure pass
    alpha_sum,         \* ... Stack.alpha_sum, StackView.subview_length_alpha_total
    beta_max,          \* ... Stack.beta_max
    beta_max_finite,   \* ... Stack.beta_max_finite
    stack_size,        \* ... what the last operation, a preferred_size, returned
    stack_bounds,      \* ... the bounds the last operation, an apply_bounds, was given
    subview_bounds,    \* ... and the bounds it gave each subview, in order
    n_subviews_warned, \* ... and whether it logged warn_n_subviews_changed
    padding_left,      \* a Container: its padding_left
    padding_right,     \* ... its padding_right
    padding_top,       \* ... its padding_top
    padding_bottom,    \* ... its padding_bottom
    spread_ratio_horizontal, \* ... its spread_ratio_horizontal
    spread_ratio_vertical,   \* ... its spread_ratio_vertical
    container_subview_size,  \* ... its subview_size, NoSize if no container exists
    override_size,     \* ... its override_size
    container_size,    \* ... what the last operation, a preferred_size, returned
    container_bounds,  \* ... the bounds the last operation, an apply_bounds, was given
    container_subview_bounds, \* ... and the bounds it gave the subview
    button_view,       \* a ButtonView: the number of its listener_handle, 0
                       \* before it is constructed
    rect_bounds,       \* ... the bounds of its rect_view
    needs_update_bounds, \* ... ButtonView.needs_update_bounds
    style_shown,       \* ... the ButtonState whose style its rect and text show
    styles_updated,    \* ... its last prepare_for_drawing called update_styles
    init_context,      \* LazyAppRunner.init_context is Some
    app,               \* LazyAppRunner.app: the instance App::new returned, 0
                       \* for None
    apps_new,          \* ... the number of App::new calls so far
    received,          \* ... the callbacks the event loop made on the runner
    app_calls,         \* ... the callbacks forwarded, each with the instance
                       \* that got it
    runner_panicked    \* ... an unwrap of the runner panicked

routerVars ==
    <<cursor_position, scale_factor, listeners, bounds_changed, button_states,
      router_alive, panicked, handles, next_object, dispatch_state,
      state_updated, events, should_redraw, last_hover, press_where,
      rescanned>>

buttonVars ==
    <<bt_state, bt_events, bt_path, bt_trigger, bt_legacy, bt_needs_updating>>

lockVars ==
    <<lock_owner, thread_pc, thread_op, callback_op, visited>>

viewVars ==
    <<view_kind, view_raw, view_needs_update, view_texture,
      view_texture_updated, view_calls, draw_outcome, root_context,
      canvas_size, root_requested, root_bounds>>

stackVars ==
    <<stack_kind, axis, padding_type, fixed_padding, alignment_alpha,
      alignment_beta, shrink_together, finished, subviews, subview_sizes,
      alpha_sum, beta_max, beta_max_finite, stack_size, stack_bounds,
      subview_bounds, n_subviews_warned>>

containerVars ==
    <<padding_left, padding_right, padding_top, padding_bottom,
      spread_ratio_horizontal, spread_ratio_vertical, container_subview_size,
      override_size, container_size, container_bounds,
      container_subview_bounds>>

buttonViewVars ==
    <<button_view, rect_bounds, needs_update_bounds, style_shown,
      styles_updated>>

lazyVars ==
    <<init_context, app, apps_new, received, app_calls, runner_panicked>>

vars ==
    <<routerVars, buttonVars, lockVars, viewVars, stackVars, containerVars,
      buttonViewVars, lazyVars>>

----------------------------------------------------------------------------
(* Bounds of the model *)

MaxListeners ==
    2

MaxClones ==
    1

MaxHeld ==
    1

MaxCalls ==
    7

MaxThreads ==
    2

MaxCallbacks ==
    3

MaxTrace ==
    4

----------------------------------------------------------------------------
(* Values *)

NoPos ==
    <<>>

NoListener ==
    [none |-> TRUE]

NoButton ==
    "NoButton"

MouseButtons ==
    {"Left", "Right", "Middle", "Back", "Forward", "Other"}

(* The buttons the model's MouseInput events are drawn from *)
InputButtons ==
    {"Left", "Back", "Forward", "Other"}

ButtonSlots ==
    0 .. 4

ButtonStates ==
    {"Idle", "Hovered", "Pressed", "PressedOutside"}

ScaleFactors ==
    {1, 2}

PhysicalPositions ==
    {<<2, 0>>, <<4, 4>>}

BoundsChoices ==
    { [x_min |-> 0, y_min |-> 0, width |-> 2, height |-> 1],
      [x_min |-> 2, y_min |-> 2, width |-> 2, height |-> 2] }

AllReleased ==
    [i \in ButtonSlots |-> FALSE]

----------------------------------------------------------------------------
(* Bounds<f32> *)

x_max(b) ==
    b.x_min + b.width

y_max(b) ==
    b.y_min + b.height

Contains(b, point) ==
    /\ b.x_min <= point[1]
    /\ point[1] <= x_max(b)
    /\ b.y_min <= point[2]
    /\ point[2] <= y_max(b)

(* PhysicalPosition::to_logical: divide by the scale factor *)
ToLogical(position, factor) ==
    <<position[1] \div factor, position[2] \div factor>>

----------------------------------------------------------------------------
(* ButtonDispatch (view/button.rs) *)

(* Mutant: leaving the bounds while pressed releases the button *)
NextStateNoPressedOutside(old_state, kind, button, flag) ==
    CASE kind = "HoveringStart" /\ old_state = "Idle" -> "Hovered"
      [] kind = "HoveringFinish" /\ old_state \in {"Hovered", "Pressed"} -> "Idle"
      [] kind = "ButtonDown" /\ button = "Left" /\ flag -> "Pressed"
      [] kind = "ButtonUp" /\ button = "Left" /\ flag -> "Hovered"
      [] kind = "ButtonUp" /\ button = "Left" /\ ~flag -> "Idle"
      [] OTHER -> old_state

(* Mutant: a release of the left button always ends in Idle *)
NextStateReleaseToIdle(old_state, kind, button, flag) ==
    CASE kind = "HoveringStart" /\ old_state = "Idle" -> "Hovered"
      [] kind = "HoveringStart" /\ old_state = "PressedOutside" -> "Pressed"
      [] kind = "HoveringFinish" /\ old_state = "Hovered" -> "Idle"
      [] kind = "HoveringFinish" /\ old_state = "Pressed" -> "PressedOutside"
      [] kind = "ButtonDown" /\ button = "Left" /\ flag -> "Pressed"
      [] kind = "ButtonUp" /\ button = "Left" -> "Idle"
      [] OTHER -> old_state

(* Mutant: the button arms look at the state they start from *)
NextStateGuarded(old_state, kind, button, flag) ==
    CASE kind = "HoveringStart" /\ old_state = "Idle" -> "Hovered"
      [] kind = "HoveringStart" /\ old_state = "PressedOutside" -> "Pressed"
      [] kind = "HoveringFinish" /\ old_state = "Hovered" -> "Idle"
      [] kind = "HoveringFinish" /\ old_state = "Pressed" -> "PressedOutside"
      [] kind = "ButtonDown" /\ button = "Left" /\ flag
            /\ old_state = "Hovered" -> "Pressed"
      [] kind = "ButtonUp" /\ button = "Left" /\ flag
            /\ old_state = "Pressed" -> "Hovered"
      [] kind = "ButtonUp" /\ button = "Left" /\ ~flag
            /\ old_state \in {"Pressed", "PressedOutside"} -> "Idle"
      [] OTHER -> old_state

NextState(old_state, kind, button, flag) ==
    CASE kind = "HoveringStart" /\ old_state = "Idle" -> "Hovered"
      [] kind = "HoveringStart" /\ old_state = "PressedOutside" -> "Pressed"
      [] kind = "HoveringFinish" /\ old_state = "Hovered" -> "Idle"
      [] kind = "HoveringFinish" /\ old_state = "Pressed" -> "PressedOutside"
      [] kind = "ButtonDown" /\ button = "Left" /\ flag -> "Pressed"
      [] kind = "ButtonUp" /\ button = "Left" /\ flag -> "Hovered"
      [] kind = "ButtonUp" /\ button = "Left" /\ ~flag -> "Idle"
      [] OTHER -> old_state

(* ButtonDispatch::mouse_event of src/button.rs, whose ButtonDown carries *)
(* no started_inside                                                     *)
LegacyNextState(old_state, kind, button, flag) ==
    CASE kind = "HoveringStart" /\ old_state = "Idle" -> "Hovered"
      [] kind = "HoveringStart" /\ old_state = "PressedOutside" -> "Pressed"
      [] kind = "HoveringFinish" /\ old_state = "Hovered" -> "Idle"
      [] kind = "HoveringFinish" /\ old_state = "Pressed" -> "PressedOutside"
      [] kind = "ButtonDown" /\ button = "Left" -> "Pressed"
      [] kind = "ButtonUp" /\ button = "Left" /\ flag -> "Hovered"
      [] kind = "ButtonUp" /\ button = "Left" /\ ~flag -> "Idle"
      [] OTHER -> old_state

(* ButtonEvent::is_button_trigger *)
IsButtonTrigger(ev) ==
    /\ ev.kind = "ButtonUp"
    /\ ev.button = "Left"
    /\ ev.flag
    /\ ev.previous_state = "Pressed"

(* The ButtonEvent handed to the callback by ButtonDispatch::mouse_event.   *)
(* flag is started_inside of a ButtonDown and inside of a ButtonUp; slot is *)
(* the button slot the scan was looking at (-1 for a hover notification).   *)
MouseEventDelivered(old_state, object, kind, button, flag, slot, position) ==
    [ target |-> object,
      kind |-> kind,
      button |-> button,
      flag |-> flag,
      slot |-> slot,
      cursor_position |-> position,
      previous_state |-> old_state,
      current_state |-> NextState(old_state, kind, button, flag) ]

----------------------------------------------------------------------------
(* MouseEventRouter *)

(* window_event: the slot a MouseInput's button is stored in *)
ButtonIndex(button) ==
    CASE button = "Left" -> 0
      [] button = "Right" -> 1
      [] button = "Middle" -> 2
      [] button = "Back" -> 3
      [] button = "Forward" -> 4

(* scan_events: the button reported for a slot *)
ScanButton(i) ==
    CASE i = 0 -> "Left"
      [] i = 1 -> "Right"
      [] i = 2 -> "Middle"
      [] i = 3 -> "Forward"
      [] i = 4 -> "Back"

(* scan_events: the hover notification of one listener, if any *)
HoverChange(inside, is_hovered) ==
    IF inside /\ ~is_hovered THEN "HoveringStart"
    ELSE IF ~inside /\ is_hovered THEN "HoveringFinish"
    ELSE "none"

(* Mutant: the hovered flag is not cleared when hovering finishes *)
HoverFlagNotCleared(inside, is_hovered) ==
    inside \/ is_hovered

(* scan_events: the listener's hovered flag after the hover step *)
HoverFlag(inside, is_hovered) ==
    IF inside /\ ~is_hovered THEN TRUE
    ELSE IF ~inside /\ is_hovered THEN FALSE
    ELSE is_hovered

(* Mutant: a release is reported only with the cursor inside the bounds *)
ButtonEdgeUpInside(state, listener_state, inside) ==
    IF ~state /\ listener_state /\ inside THEN "ButtonUp"
    ELSE IF state /\ ~listener_state /\ inside THEN "ButtonDown"
    ELSE "none"

(* Mutant: a released button is reported to every listener *)
ButtonEdgeEveryRelease(state, listener_state, inside) ==
    IF ~state THEN "ButtonUp"
    ELSE IF state /\ ~listener_state /\ inside THEN "ButtonDown"
    ELSE "none"

(* Mutant: a rising edge is reported wherever the cursor is *)
ButtonEdgeAnywhere(state, listener_state, inside) ==
    IF ~state /\ listener_state THEN "ButtonUp"
    ELSE IF state /\ ~listener_state THEN "ButtonDown"
    ELSE "none"

(* scan_events: the button notification of one slot, if any *)
ButtonEdge(state, listener_state, inside) ==
    IF ~state /\ listener_state THEN "ButtonUp"
    ELSE IF state /\ ~listener_state /\ inside THEN "ButtonDown"
    ELSE "none"

(* Mutant: any press seen inside the bounds counts as started inside *)
StartedInsideAnyPress(is_hovered_before, inside) ==
    inside

(* scan_events: started_inside of a ButtonDown *)
StartedInside(is_hovered_before, inside) ==
    is_hovered_before

(* Mutant: ButtonUp reports the hover state from before the scan *)
UpInsideStale(is_hovered_before, inside) ==
    is_hovered_before

(* scan_events: inside of a ButtonUp *)
UpInside(is_hovered_before, inside) ==
    inside

(* scan_events: the loop over the five button slots of one listener.       *)
(* acc = [button_states, state, events, should_redraw]: the listener's     *)
(* recorded flags, its target's dispatch state, the notifications sent so  *)
(* far and the scan's should_redraw.                                       *)
RECURSIVE ScanButtons(_, _, _, _, _, _, _)
ScanButtons(i, acc, raw, inside, is_hovered_before, object, position) ==
    IF i > 4 THEN acc
    ELSE
        LET edge == ButtonEdge(raw[i], acc.button_states[i], inside)
            flag == IF edge = "ButtonUp"
                    THEN UpInside(is_hovered_before, inside)
                    ELSE StartedInside(is_hovered_before, inside)
            ev == MouseEventDelivered(acc.state, object, edge, ScanButton(i),
                                      flag, i, position)
            next == IF edge = "none" THEN acc
                    ELSE [ button_states |->
                               [acc.button_states EXCEPT ![i] = raw[i]],
                           state |-> ev.current_state,
                           events |-> Append(acc.events, ev),
                           should_redraw |-> TRUE ]
        IN ScanButtons(i + 1, next, raw, inside, is_hovered_before, object,
                       position)

(* scan_events: the body of the loop over the listeners, for one listener *)
ScanListener(listener, state, raw, position, redraw) ==
    LET inside == Contains(listener.bounds, position)
        is_hovered_before == listener.is_hovered
        hover == HoverChange(inside, listener.is_hovered)
        ev == MouseEventDelivered(state, listener.object, hover, NoButton,
                                  FALSE, -1, position)
        start == IF hover = "none"
                 THEN [ button_states |-> listener.button_states,
                        state |-> state,
                        events |-> <<>>,
                        should_redraw |-> redraw ]
                 ELSE [ button_states |-> listener.button_states,
                        state |-> ev.current_state,
                        events |-> <<ev>>,
                        should_redraw |-> TRUE ]
        acc == ScanButtons(0, start, raw, inside, is_hovered_before,
                           listener.object, position)
    IN [ listener |->
             [listener EXCEPT !.is_hovered = HoverFlag(inside, listener.is_hovered),
                              !.button_states = acc.button_states],
         state |-> acc.state,
         events |-> acc.events,
         should_redraw |-> acc.should_redraw ]

(* listeners_iter_mut: the slots a scan visits *)
IsLive(slot) ==
    slot # NoListener

(* scan_events: the loop over the listeners, from slot k on.               *)
(* acc = [listeners, dispatch_state, events, should_redraw]                *)
RECURSIVE ScanFrom(_, _, _, _)
ScanFrom(k, acc, raw, position) ==
    IF k > Len(acc.listeners) THEN acc
    ELSE IF ~IsLive(acc.listeners[k]) THEN ScanFrom(k + 1, acc, raw, position)
    ELSE
        LET l == acc.listeners[k]
            r == ScanListener(l, acc.dispatch_state[l.object], raw, position,
                              acc.should_redraw)
        IN ScanFrom(k + 1,
                    [ listeners |-> [acc.listeners EXCEPT ![k] = r.listener],
                      dispatch_state |->
                          [acc.dispatch_state EXCEPT ![l.object] = r.state],
                      events |-> acc.events \o r.events,
                      should_redraw |-> r.should_redraw ],
                    raw, position)

(* Mutant: with the cursor unknown, the scan takes it to be outside every *)
(* listener                                                              *)
ScanResultOffWindow(position, ls, raw, ds) ==
    ScanFrom(1, [ listeners |-> ls, dispatch_state |-> ds,
                  events |-> <<>>, should_redraw |-> FALSE ],
             raw, IF position = NoPos THEN <<-1, -1>> ELSE position)

(* Mutant: a scan that ran asks for a redraw *)
ScanResultRedrawAlways(position, ls, raw, ds) ==
    IF position = NoPos
    THEN [ listeners |-> ls, dispatch_state |-> ds, events |-> <<>>,
           should_redraw |-> FALSE ]
    ELSE [ScanFrom(1, [ listeners |-> ls, dispatch_state |-> ds,
                        events |-> <<>>, should_redraw |-> FALSE ],
                   raw, position) EXCEPT !.should_redraw = TRUE]

(* scan_events, given the router fields it reads *)
ScanResult(position, ls, raw, ds) ==
    IF position = NoPos
    THEN [ listeners |-> ls, dispatch_state |-> ds, events |-> <<>>,
           should_redraw |-> FALSE ]
    ELSE ScanFrom(1, [ listeners |-> ls, dispatch_state |-> ds,
                       events |-> <<>>, should_redraw |-> FALSE ],
                  raw, position)

(* The last hover notification of every target after `evs` were delivered *)
RECURSIVE HoverLog(_, _)
HoverLog(log, evs) ==
    IF evs = <<>> THEN log
    ELSE LET e == Head(evs)
         IN HoverLog(IF e.kind \in {"HoveringStart", "HoveringFinish"}
                     THEN [log EXCEPT ![e.target] = e.kind]
                     ELSE log,
                     Tail(evs))

(* ButtonDispatch::mouse_event of src/button.rs: needs_updating after the   *)
(* event, fetch_or(old_state != new_state)                                 *)
NeedsUpdatingAfter(flag, ev) ==
    flag \/ ev.previous_state # ev.current_state

(* ButtonDispatch::mouse_event of view/button.rs: state_updated after the  *)
(* event, store(true)                                                      *)
StateUpdatedAfter(flag, ev) ==
    TRUE

(* state_updated of every target after `evs` were delivered *)
RECURSIVE StateUpdated(_, _)
StateUpdated(flags, evs) ==
    IF evs = <<>> THEN flags
    ELSE LET e == Head(evs)
         IN StateUpdated([flags EXCEPT ![e.target] = StateUpdatedAfter(@, e)],
                         Tail(evs))

(* scan_events as a step: the listeners, the targets' states and the       *)
(* notifications, with the given cursor position and raw button states     *)
Scan(position, raw) ==
    LET r == ScanResult(position, listeners, raw, dispatch_state)
    IN /\ listeners' = r.listeners
       /\ dispatch_state' = r.dispatch_state
       /\ state_updated' = StateUpdated(state_updated, r.events)
       /\ events' = r.events
       /\ should_redraw' = r.should_redraw
       /\ last_hover' = HoverLog(last_hover, r.events)

Running ==
    router_alive /\ ~panicked

----------------------------------------------------------------------------
(* Initial state: MouseEventRouter::new, no listener registered *)

ButtonInit ==
    /\ bt_state = "Idle"
    /\ bt_events = <<>>
    /\ bt_path = <<"Idle">>
    /\ bt_trigger = <<>>
    /\ bt_legacy = <<"Idle">>
    /\ bt_needs_updating = TRUE

RouterInit ==
    /\ cursor_position = NoPos
    /\ scale_factor = 1
    /\ listeners = <<>>
    /\ bounds_changed = FALSE
    /\ button_states = AllReleased
    /\ router_alive = TRUE
    /\ panicked = FALSE
    /\ handles = <<>>
    /\ next_object = 1
    /\ dispatch_state = [t \in 1 .. MaxListeners |-> "Idle"]
    /\ state_updated = [t \in 1 .. MaxListeners |-> TRUE]
    /\ events = <<>>
    /\ should_redraw = FALSE
    /\ rescanned = FALSE
    /\ last_hover = [t \in 1 .. MaxListeners |-> "none"]
    /\ press_where = [t \in 1 .. MaxListeners |-> [i \in ButtonSlots |-> "none"]]

Threads ==
    1 .. MaxThreads

(* The Mutex fields of MouseEventRouter that the operations lock *)
Locks ==
    {"cursor_position", "listeners", "button_states"}

LockInit ==
    /\ lock_owner = [l \in Locks |-> 0]
    /\ thread_pc = [t \in Threads |-> "idle"]
    /\ thread_op = [t \in Threads |-> "none"]
    /\ callback_op = [t \in Threads |-> "none"]
    /\ visited = [t \in Threads |-> 0]

LeafViews ==
    {"RectView", "TextView", "ImageView"}

(* No view exists before the application constructs one *)
ViewInit ==
    /\ view_kind = "none"
    /\ view_raw = FALSE
    /\ view_needs_update = FALSE
    /\ view_texture = FALSE
    /\ view_texture_updated = FALSE
    /\ view_calls = <<>>
    /\ draw_outcome = "none"
    /\ root_context = "none"

----------------------------------------------------------------------------
(* f32 arithmetic of the layout code.  A length is a fraction <<n, d>> in  *)
(* lowest terms with d >= 0: d = 0 stands for the non-finite values,       *)
(* <<1, 0>> and <<-1, 0>> for the infinities and <<0, 0>> for NaN.         *)
(* Rounding is left out: the operations are exact.                         *)

Abs(n) ==
    IF n < 0 THEN -n ELSE n

Sgn(n) ==
    IF n < 0 THEN -1 ELSE IF n > 0 THEN 1 ELSE 0

RECURSIVE GCD(_, _)
GCD(a, b) ==
    IF b = 0 THEN a ELSE GCD(b, a % b)

(* The fraction n / d, d >= 0, in lowest terms *)
Frac(n, d) ==
    IF d = 0
    THEN <<Sgn(n), 0>>
    ELSE LET g == GCD(Abs(n), d) IN <<n \div g, d \div g>>

(* An integer literal as f32 *)
F(n) ==
    <<n, 1>>

NaN ==
    <<0, 0>>

Infinity ==
    <<1, 0>>

(* f32::is_finite *)
IsFinite(x) ==
    x[2] # 0

IsNaN(x) ==
    x = NaN

(* x + y *)
FAdd(x, y) ==
    IF ~IsFinite(x) /\ ~IsFinite(y)
    THEN IF x = y THEN x ELSE NaN
    ELSE IF ~IsFinite(x) THEN x
    ELSE IF ~IsFinite(y) THEN y
    ELSE Frac(x[1] * y[2] + y[1] * x[2], x[2] * y[2])

(* x - y *)
FSub(x, y) ==
    FAdd(x, <<-y[1], y[2]>>)

(* x * y *)
FMul(x, y) ==
    Frac(x[1] * y[1], x[2] * y[2])

(* x / y *)
FDiv(x, y) ==
    LET s == IF y[1] < 0 THEN -1 ELSE 1
    IN  Frac(s * x[1] * y[2], s * x[2] * y[1])

(* x < y; false if either is NaN *)
FLt(x, y) ==
    IF IsNaN(x) \/ IsNaN(y) THEN FALSE
    ELSE IF ~IsFinite(x) /\ ~IsFinite(y) THEN x[1] < y[1]
    ELSE x[1] * y[2] < y[1] * x[2]

(* x <= y; false if either is NaN *)
FLe(x, y) ==
    ~IsNaN(x) /\ ~IsNaN(y) /\ ~FLt(y, x)

(* f32::min: the other operand if one is NaN *)
FMin(x, y) ==
    IF IsNaN(x) THEN y
    ELSE IF IsNaN(y) THEN x
    ELSE IF FLt(y, x) THEN y ELSE x

(* f32::max: the other operand if one is NaN *)
FMax(x, y) ==
    IF IsNaN(x) THEN y
    ELSE IF IsNaN(y) THEN x
    ELSE IF FLt(x, y) THEN y ELSE x

----------------------------------------------------------------------------
(* Axis algebra: (alpha, beta) is (x, y) or (width, height) on a           *)
(* horizontal axis and the transpose on a vertical one.  A size or a point *)
(* is a pair <<x, y>>; a Bounds is [origin, size].                         *)

Axes ==
    {"Horizontal", "Vertical"}

(* Point2::new_on_axis, RectSize::new_on_axis *)
NewOnAxis(a, alpha, beta) ==
    IF a = "Horizontal" THEN <<alpha, beta>> ELSE <<beta, alpha>>

(* Point2::alpha, RectSize::length_alpha *)
Alpha(a, pair) ==
    IF a = "Horizontal" THEN pair[1] ELSE pair[2]

(* Point2::beta, RectSize::length_beta *)
Beta(a, pair) ==
    IF a = "Horizontal" THEN pair[2] ELSE pair[1]

(* RectSize::min: per axis *)
SizeMin(size, other) ==
    <<FMin(size[1], other[1]), FMin(size[2], other[2])>>

(* RectSize::scaled_on_axis *)
ScaledOnAxis(a, size, scale_alpha, scale_beta) ==
    NewOnAxis(a, FMul(Alpha(a, size), scale_alpha),
                 FMul(Beta(a, size), scale_beta))

(* Bounds::new *)
BoundsNew(origin, size) ==
    [origin |-> origin, size |-> size]

----------------------------------------------------------------------------
(* Stacks: Stack of layout/stack.rs, built afresh for a layout pass by a   *)
(* StackBuilder, and StackView of view/stack.rs, which owns its subviews   *)

PaddingTypes ==
    {"Interpadded", "Omnipadded"}

(* fixed_padding = None *)
NoPadding ==
    <<>>

NoSize ==
    <<>>

NoBounds ==
    [none |-> TRUE]

MaxSubviews ==
    3

(* The sizes a subview may prefer *)
SubviewSizes ==
    {<<F(50), F(20)>>, <<F(80), F(20)>>, <<F(30), F(20)>>}

(* The paddings a caller may fix *)
Paddings ==
    {NoPadding, F(10)}

(* The bounds a stack may be given *)
StackBounds ==
    {BoundsNew(<<F(0), F(0)>>, <<F(500), F(20)>>),
     BoundsNew(<<F(10), F(5)>>, <<F(100), F(30)>>)}

(* StackAlignment *)
Center ==
    [kind |-> "Center"]

Leading ==
    [kind |-> "Leading"]

Trailing ==
    [kind |-> "Trailing"]

Ratio(r) ==
    [kind |-> "Ratio", ratio |-> r]

(* The alignments a caller may set *)
Alignments ==
    {Center, Leading, Trailing, Ratio(<<1, 5>>)}

(* Every alignment taken as Center *)
AlignmentRatioCentered(alignment) ==
    <<1, 2>>

(* StackAlignment::ratio *)
AlignmentRatio(alignment) ==
    CASE alignment.kind = "Center" -> <<1, 2>>
      [] alignment.kind = "Leading" -> F(0)
      [] alignment.kind = "Trailing" -> F(1)
      [] alignment.kind = "Ratio" -> alignment.ratio

(* usize::saturating_sub *)
SaturatingSub(a, b) ==
    IF a >= b THEN a - b ELSE 0

(* n_subviews - 1 without saturation *)
NPaddingsUnsaturated(n_subviews, type) ==
    IF type = "Interpadded" THEN n_subviews - 1 ELSE n_subviews + 1

(* Stack::n_paddings; the same match in StackView::preferred_size and      *)
(* StackView::apply_bounds                                                 *)
NPaddings(n_subviews, type) ==
    IF type = "Interpadded"
    THEN SaturatingSub(n_subviews, 1)
    ELSE n_subviews + 1

(* Option::unwrap_or *)
UnwrapOr(option, default) ==
    IF option = NoPadding THEN default ELSE option

(* All sequences of at most n elements of S *)
SeqUpTo(S, n) ==
    UNION {[1..k -> S] : k \in 0..n}

(* No stack exists before the first layout pass *)
StackInit ==
    /\ stack_kind = "none"
    /\ axis = "Horizontal"
    /\ padding_type = "Interpadded"
    /\ fixed_padding = NoPadding
    /\ alignment_alpha = Center
    /\ alignment_beta = Center
    /\ shrink_together = FALSE
    /\ finished = FALSE
    /\ subviews = <<>>
    /\ subview_sizes = <<>>
    /\ alpha_sum = F(0)
    /\ beta_max = F(0)
    /\ beta_max_finite = F(0)
    /\ stack_size = NoSize
    /\ stack_bounds = NoBounds
    /\ subview_bounds = <<>>
    /\ n_subviews_warned = FALSE

----------------------------------------------------------------------------
(* Container of layout/container.rs: one subview and a padding policy per  *)
(* edge                                                                    *)

(* ContainerPadding *)
Fixed(v) ==
    [kind |-> "Fixed", value |-> v]

RatioOfViewSize(r) ==
    [kind |-> "RatioOfViewSize", value |-> r]

Spread ==
    [kind |-> "Spread"]

(* The paddings a caller may set on an edge *)
ContainerPaddings ==
    {Fixed(F(0)), Fixed(F(30)), RatioOfViewSize(<<1, 2>>), Spread}

(* The spread ratios a caller may set *)
SpreadRatios ==
    {<<1, 5>>, <<1, 2>>, <<4, 5>>}

(* The sizes the subview of a container may prefer *)
ContainerSubviewSizes ==
    {<<F(40), F(10)>>}

(* The sizes a caller may override the subview's size with *)
OverrideSizes ==
    {NoSize, <<F(60), F(20)>>}

(* The bounds a container may be given *)
ContainerBounds ==
    {BoundsNew(<<F(0), F(0)>>, <<F(100), F(50)>>),
     BoundsNew(<<F(10), F(5)>>, <<F(20), F(8)>>)}

(* RectSize::max: per axis *)
SizeMax(size, other) ==
    <<FMax(size[1], other[1]), FMax(size[2], other[2])>>

(* ContainerPadding::as_fixed followed by unwrap_or(0.) *)
AsFixedOrZero(padding) ==
    IF padding.kind = "Fixed" THEN padding.value ELSE F(0)

(* The closure `padding` of Container::padding *)
PaddingOf(padding, spread_ratio, view_length, remaining_length) ==
    CASE padding.kind = "Fixed" -> padding.value
      [] padding.kind = "RatioOfViewSize" -> FMul(padding.value, view_length)
      [] padding.kind = "Spread" -> FMul(spread_ratio, remaining_length)

(* The trailing padding that leaves to the trailing edge what the leading  *)
(* one did not take                                                        *)
SpreadTrailingComplement(spread_ratio, remaining_length) ==
    FMul(FSub(F(1), spread_ratio), remaining_length)

(* The trailing padding of the arm (Spread, Spread) of Container::padding *)
SpreadTrailing(spread_ratio, remaining_length) ==
    FMul(spread_ratio, remaining_length)

(* A leading padding that always centers *)
SpreadLeadingCentered(spread_ratio, remaining_length) ==
    FMul(<<1, 2>>, remaining_length)

(* The leading padding of the arm (Spread, Spread) of Container::padding *)
SpreadLeading(spread_ratio, remaining_length) ==
    FMul(spread_ratio, remaining_length)

(* A Spread edge that takes the whole remaining length *)
SpreadRestWhole(remaining_length, padding) ==
    remaining_length

(* What a lone Spread edge takes: the remaining length minus the padding   *)
(* of the opposite edge                                                    *)
SpreadRest(remaining_length, padding) ==
    FSub(remaining_length, padding)

(* Container::padding: the leading and the trailing padding of an axis *)
Padding(leading, trailing, spread_ratio, view_length, remaining_length) ==
    CASE leading = Spread /\ trailing = Spread ->
            <<SpreadLeading(spread_ratio, remaining_length),
              SpreadTrailing(spread_ratio, remaining_length)>>
      [] leading # Spread /\ trailing = Spread ->
            LET p == PaddingOf(leading, spread_ratio, view_length,
                               remaining_length)
            IN  <<p, SpreadRest(remaining_length, p)>>
      [] leading = Spread /\ trailing # Spread ->
            LET p == PaddingOf(trailing, spread_ratio, view_length,
                               remaining_length)
            IN  <<SpreadRest(remaining_length, p), p>>
      [] OTHER ->
            <<PaddingOf(leading, spread_ratio, view_length, remaining_length),
              PaddingOf(trailing, spread_ratio, view_length,
                        remaining_length)>>

(* Bounds::x_max, Bounds::y_max on axis k (1 for x, 2 for y) *)
MaxEdge(bounds, k) ==
    FAdd(bounds.origin[k], bounds.size[k])

(* Option::None of LazyAppRunner.app *)
NoApp ==
    0

(* LazyAppRunner::new *)
LazyInit ==
    /\ init_context = TRUE
    /\ app = NoApp
    /\ apps_new = 0
    /\ received = <<>>
    /\ app_calls = <<>>
    /\ runner_panicked = FALSE

(* No prepare_view has run *)
RootInit ==
    /\ canvas_size = NoSize
    /\ root_requested = NoSize
    /\ root_bounds = NoBounds

(* No container exists before the first layout pass *)
ContainerInit ==
    /\ padding_left = Fixed(F(0))
    /\ padding_right = Fixed(F(0))
    /\ padding_top = Fixed(F(0))
    /\ padding_bottom = Fixed(F(0))
    /\ spread_ratio_horizontal = <<1, 2>>
    /\ spread_ratio_vertical = <<1, 2>>
    /\ container_subview_size = NoSize
    /\ override_size = NoSize
    /\ container_size = NoSize
    /\ container_bounds = NoBounds
    /\ container_subview_bounds = NoBounds

----------------------------------------------------------------------------

(* ButtonView::new: the bounds it registers its listener with *)
DefaultBounds ==
    [x_min |-> 0, y_min |-> 0, width |-> 64, height |-> 24]

(* No ButtonView constructed yet *)
ButtonViewInit ==
    /\ button_view = 0
    /\ rect_bounds = DefaultBounds
    /\ needs_update_bounds = TRUE
    /\ style_shown = "Idle"
    /\ styles_updated = FALSE

Init ==
    /\ RouterInit /\ ButtonInit /\ LockInit /\ ViewInit /\ StackInit
    /\ ContainerInit /\ ButtonViewInit /\ RootInit /\ LazyInit

(* No prepare_view has returned anything *)
NothingPrepared ==
    /\ root_context' = "none"
    /\ canvas_size' = NoSize
    /\ root_requested' = NoSize
    /\ root_bounds' = NoBounds

(* An operation that dispatches nothing and is no window_event call *)
Quiet ==
    /\ events' = <<>>
    /\ should_redraw' = FALSE
    /\ UNCHANGED <<dispatch_state, state_updated, last_hover>>

----------------------------------------------------------------------------
(* Registration and handles *)

(* register_listener: the listener table after the push *)
Registered(ls, bounds, object) ==
    Append(ls, [ bounds |-> bounds,
                 is_hovered |-> FALSE,
                 button_states |-> AllReleased,
                 object |-> object ])

(* register_listener: the index stored in the returned handle *)
RegisteredIndex(ls) ==
    Len(ls) + 1

RegisterListener(bounds) ==
    /\ Running
    /\ next_object <= MaxListeners
    /\ listeners' = Registered(listeners, bounds, next_object)
    /\ handles' = Append(handles, [ index |-> RegisteredIndex(listeners),
                                    object |-> next_object,
                                    live |-> 1,
                                    dropped |-> FALSE ])
    /\ next_object' = next_object + 1
    /\ Quiet
    /\ UNCHANGED <<cursor_position, scale_factor, bounds_changed, button_states,
                   router_alive, panicked, press_where>>
    /\ rescanned' = FALSE
    /\ UNCHANGED buttonVars
    /\ UNCHANGED lockVars
    /\ UNCHANGED <<viewVars, stackVars, containerVars, buttonViewVars,
                   lazyVars>>

(* ListenerHandle::clone *)
CloneHandle(h) ==
    /\ ~panicked
    /\ handles[h].live > 0
    /\ handles[h].live < 1 + MaxClones
    /\ handles' = [handles EXCEPT ![h].live = @ + 1]
    /\ Quiet
    /\ UNCHANGED <<cursor_position, scale_factor, listeners, bounds_changed,
                   button_states, router_alive, panicked, next_object,
                   press_where>>
    /\ rescanned' = FALSE
    /\ UNCHANGED buttonVars
    /\ UNCHANGED lockVars
    /\ UNCHANGED <<viewVars, stackVars, containerVars, buttonViewVars,
                   lazyVars>>

(* Mutant: the slot is not emptied *)
UnregisteredKept(ls, index) ==
    ls

(* Mutant: the table is compacted, the last listener moving into the slot *)
UnregisteredCompacted(ls, index) ==
    [ls EXCEPT ![index] = IF index = Len(ls) THEN NoListener ELSE ls[Len(ls)],
               ![Len(ls)] = NoListener]

(* unregister_listener *)
Unregistered(ls, index) ==
    [ls EXCEPT ![index] = NoListener]

(* Mutant: the weak reference always upgrades *)
UpgradeAlways(alive) ==
    TRUE

(* Weak::upgrade of a handle's router reference: Some while the router is *)
(* alive                                                                  *)
Upgrade(alive) ==
    alive

(* ListenerHandle::drop.  Unregistering drops the boxed dispatch target of  *)
(* the slot, so what was recorded about that target goes with it.          *)
DropHandle(h) ==
    /\ ~panicked
    /\ handles[h].live > 0
    /\ handles' = [handles EXCEPT ![h].live = @ - 1, ![h].dropped = TRUE]
    /\ IF ~Upgrade(router_alive)
       THEN UNCHANGED <<listeners, dispatch_state, state_updated, last_hover,
                        press_where, panicked>>
       ELSE IF handles[h].index > Len(listeners)
       THEN /\ panicked' = TRUE
            /\ UNCHANGED <<listeners, dispatch_state, state_updated, last_hover,
                           press_where>>
       ELSE /\ listeners' = Unregistered(listeners, handles[h].index)
            /\ dispatch_state' =
                   [dispatch_state EXCEPT ![handles[h].object] = "Idle"]
            /\ state_updated' =
                   [state_updated EXCEPT ![handles[h].object] = TRUE]
            /\ last_hover' = [last_hover EXCEPT ![handles[h].object] = "none"]
            /\ press_where' = [press_where EXCEPT
                   ![handles[h].object] = [i \in ButtonSlots |-> "none"]]
            /\ UNCHANGED panicked
    /\ events' = <<>>
    /\ should_redraw' = FALSE
    /\ UNCHANGED <<cursor_position, scale_factor, bounds_changed, button_states,
                   router_alive, next_object>>
    /\ rescanned' = FALSE
    /\ UNCHANGED buttonVars
    /\ UNCHANGED lockVars
    /\ UNCHANGED <<viewVars, stackVars, containerVars, buttonViewVars,
                   lazyVars>>

(* Mutant: update_bounds leaves the listener table as it is *)
WithBoundsKept(ls, index, bounds) ==
    ls

(* Mutant: the listener is also taken to be no longer hovered *)
WithBoundsUnhovered(ls, index, bounds) ==
    [ls EXCEPT ![index].bounds = bounds, ![index].is_hovered = FALSE]

(* MouseEventRouter::update_bounds: the listener table after the store *)
WithBounds(ls, index, bounds) ==
    [ls EXCEPT ![index].bounds = bounds]

(* ListenerHandle::update_bounds, MouseEventRouter::update_bounds *)
BoundsUpdated(h, bounds) ==
    IF ~Upgrade(router_alive)
    THEN UNCHANGED <<listeners, bounds_changed, panicked>>
    ELSE IF \/ handles[h].index > Len(listeners)
            \/ ~IsLive(listeners[handles[h].index])
    THEN panicked' = TRUE /\ UNCHANGED <<listeners, bounds_changed>>
    ELSE /\ listeners' = WithBounds(listeners, handles[h].index, bounds)
         /\ bounds_changed' = TRUE
         /\ UNCHANGED panicked

(* A call of update_bounds on handle h *)
UpdateBounds(h, bounds) ==
    /\ ~panicked
    /\ handles[h].live > 0
    /\ BoundsUpdated(h, bounds)
    /\ Quiet
    /\ UNCHANGED <<cursor_position, scale_factor, button_states, router_alive,
                   handles, next_object, press_where>>
    /\ rescanned' = FALSE
    /\ UNCHANGED buttonVars
    /\ UNCHANGED lockVars
    /\ UNCHANGED <<viewVars, stackVars, containerVars, buttonViewVars,
                   lazyVars>>

(* The last strong reference to the router goes away: the router and its   *)
(* listener table are freed, the handles' weak references remain           *)
DropRouter ==
    /\ Running
    /\ router_alive' = FALSE
    /\ cursor_position' = NoPos
    /\ scale_factor' = 1
    /\ listeners' = <<>>
    /\ bounds_changed' = FALSE
    /\ button_states' = AllReleased
    /\ press_where' = [t \in DOMAIN press_where |-> [i \in ButtonSlots |-> "none"]]
    /\ last_hover' = [t \in DOMAIN last_hover |-> "none"]
    /\ events' = <<>>
    /\ should_redraw' = FALSE
    /\ UNCHANGED <<panicked, handles, next_object, dispatch_state,
                   state_updated>>
    /\ rescanned' = FALSE
    /\ UNCHANGED buttonVars
    /\ UNCHANGED lockVars
    /\ UNCHANGED <<viewVars, stackVars, containerVars, buttonViewVars,
                   lazyVars>>

----------------------------------------------------------------------------
(* window_event *)

ScaleFactorChanged(factor) ==
    /\ Running
    /\ scale_factor' = factor
    /\ Scan(cursor_position, button_states)
    /\ UNCHANGED <<cursor_position, bounds_changed, button_states, router_alive,
                   panicked, handles, next_object, press_where>>
    /\ rescanned' = FALSE
    /\ UNCHANGED buttonVars
    /\ UNCHANGED lockVars
    /\ UNCHANGED <<viewVars, stackVars, containerVars, buttonViewVars,
                   lazyVars>>

CursorMoved(position) ==
    /\ Running
    /\ cursor_position' = ToLogical(position, scale_factor)
    /\ Scan(cursor_position', button_states)
    /\ UNCHANGED <<scale_factor, bounds_changed, button_states, router_alive,
                   panicked, handles, next_object, press_where>>
    /\ rescanned' = FALSE
    /\ UNCHANGED buttonVars
    /\ UNCHANGED lockVars
    /\ UNCHANGED <<viewVars, stackVars, containerVars, buttonViewVars,
                   lazyVars>>

CursorLeft ==
    /\ Running
    /\ cursor_position' = NoPos
    /\ Scan(cursor_position', button_states)
    /\ UNCHANGED <<scale_factor, bounds_changed, button_states, router_alive,
                   panicked, handles, next_object, press_where>>
    /\ rescanned' = FALSE
    /\ UNCHANGED buttonVars
    /\ UNCHANGED lockVars
    /\ UNCHANGED <<viewVars, stackVars, containerVars, buttonViewVars,
                   lazyVars>>

(* Where the cursor is relative to a listener's bounds *)
Where(position, slot) ==
    IF position = NoPos THEN "unknown"
    ELSE IF Contains(slot.bounds, position) THEN "inside"
    ELSE "outside"

(* press_where after MouseInput stored `pressed` in button slot `index` *)
PressWhere(index, pressed) ==
    IF ~pressed
    THEN [t \in DOMAIN press_where |-> [press_where[t] EXCEPT ![index] = "none"]]
    ELSE IF button_states[index] THEN press_where
    ELSE [t \in DOMAIN press_where |->
            IF \E k \in 1 .. Len(listeners) :
                   IsLive(listeners[k]) /\ listeners[k].object = t
            THEN LET k == CHOOSE k \in 1 .. Len(listeners) :
                              IsLive(listeners[k]) /\ listeners[k].object = t
                 IN [press_where[t] EXCEPT
                        ![index] = Where(cursor_position, listeners[k])]
            ELSE press_where[t]]

Held ==
    {i \in ButtonSlots : button_states[i]}

MouseInput(button, pressed) ==
    /\ Running
    /\ IF button = "Other"
       THEN /\ Quiet
            /\ UNCHANGED <<listeners, button_states, press_where>>
       ELSE /\ pressed =>
                \/ button_states[ButtonIndex(button)]
                \/ Cardinality(Held) < MaxHeld
            /\ button_states' =
                   [button_states EXCEPT ![ButtonIndex(button)] = pressed]
            /\ press_where' = PressWhere(ButtonIndex(button), pressed)
            /\ Scan(cursor_position, button_states')
    /\ UNCHANGED <<cursor_position, scale_factor, bounds_changed, router_alive,
                   panicked, handles, next_object>>
    /\ rescanned' = FALSE
    /\ UNCHANGED buttonVars
    /\ UNCHANGED lockVars
    /\ UNCHANGED <<viewVars, stackVars, containerVars, buttonViewVars,
                   lazyVars>>

(* Mutant: every RedrawRequested scans *)
RedrawScansAlways(flag) ==
    TRUE

(* RedrawRequested scans if the flag it fetched was set *)
RedrawScans(flag) ==
    flag

RedrawRequested ==
    /\ Running
    /\ bounds_changed' = FALSE
    /\ IF ~RedrawScans(bounds_changed)
       THEN Quiet /\ UNCHANGED listeners
       ELSE Scan(cursor_position, button_states)
    /\ UNCHANGED <<cursor_position, scale_factor, button_states, router_alive,
                   panicked, handles, next_object, press_where>>
    /\ rescanned' = bounds_changed
    /\ UNCHANGED buttonVars
    /\ UNCHANGED lockVars
    /\ UNCHANGED <<viewVars, stackVars, containerVars, buttonViewVars,
                   lazyVars>>

(* Any other WindowEvent: ignored *)
OtherEvent ==
    /\ Running
    /\ Quiet
    /\ UNCHANGED <<cursor_position, scale_factor, listeners, bounds_changed,
                   button_states, router_alive, panicked, handles, next_object,
                   press_where>>
    /\ rescanned' = FALSE
    /\ UNCHANGED buttonVars
    /\ UNCHANGED lockVars
    /\ UNCHANGED <<viewVars, stackVars, containerVars, buttonViewVars,
                   lazyVars>>

Next ==
    \/ \E b \in BoundsChoices : RegisterListener(b)
    \/ \E h \in 1 .. Len(handles) : DropHandle(h)
    \/ \E h \in 1 .. Len(handles), b \in BoundsChoices : UpdateBounds(h, b)
    \/ DropRouter
    \/ \E f \in ScaleFactors : ScaleFactorChanged(f)
    \/ \E p \in PhysicalPositions : CursorMoved(p)
    \/ CursorLeft
    \/ \E b \in InputButtons, pressed \in BOOLEAN : MouseInput(b, pressed)
    \/ RedrawRequested
    \/ OtherEvent

Spec ==
    Init /\ [][Next]_vars

(* The router with handles that are cloned: registrations, clones, drops   *)
(* and update_bounds calls on a live router, with cursor moves and redraws *)
NextHandles ==
    \/ \E b \in BoundsChoices : RegisterListener(b)
    \/ \E h \in 1 .. Len(handles) : CloneHandle(h)
    \/ \E h \in 1 .. Len(handles) : DropHandle(h)
    \/ \E h \in 1 .. Len(handles), b \in BoundsChoices : UpdateBounds(h, b)
    \/ \E p \in PhysicalPositions : CursorMoved(p)
    \/ RedrawRequested

SpecHandles ==
    Init /\ [][NextHandles]_vars

----------------------------------------------------------------------------
(* A ButtonDispatch on its own, fed events directly through mouse_event *)

(* The buttons of the events fed: the left one and three others *)
FedButtons ==
    {"Left", "Right", "Middle", "Other"}

(* ButtonDispatch::mouse_event *)
ButtonFeed(kind, button, flag) ==
    /\ Len(bt_events) < MaxTrace
    /\ LET ev == MouseEventDelivered(bt_state, 1, kind, button, flag, -1, NoPos)
       IN /\ bt_state' = ev.current_state
          /\ bt_events' = Append(bt_events, [kind |-> kind, button |-> button,
                                             flag |-> flag])
          /\ bt_path' = Append(bt_path, ev.current_state)
          /\ bt_trigger' = Append(bt_trigger, IsButtonTrigger(ev))
          /\ LET old_state == bt_legacy[Len(bt_legacy)]
                 new_state == LegacyNextState(old_state, kind, button, flag)
             IN /\ bt_legacy' = Append(bt_legacy, new_state)
                /\ bt_needs_updating' =
                       NeedsUpdatingAfter(bt_needs_updating,
                                          [ previous_state |-> old_state,
                                            current_state |-> new_state ])
    /\ UNCHANGED routerVars
    /\ UNCHANGED lockVars
    /\ UNCHANGED <<viewVars, stackVars, containerVars, buttonViewVars,
                   lazyVars>>

(* ButtonRenderer::prepare_button_for_drawing of src/button.rs *)
PrepareButtonForDrawing ==
    /\ bt_needs_updating' = FALSE
    /\ UNCHANGED <<bt_state, bt_events, bt_path, bt_trigger, bt_legacy>>
    /\ UNCHANGED routerVars
    /\ UNCHANGED lockVars
    /\ UNCHANGED <<viewVars, stackVars, containerVars, buttonViewVars,
                   lazyVars>>

ButtonNext ==
    \/ PrepareButtonForDrawing
    \/ \E kind \in {"HoveringStart", "HoveringFinish"} :
           ButtonFeed(kind, NoButton, FALSE)
    \/ \E kind \in {"ButtonDown", "ButtonUp"}, button \in FedButtons,
          flag \in BOOLEAN :
           ButtonFeed(kind, button, flag)

SpecButton ==
    Init /\ [][ButtonNext]_vars

----------------------------------------------------------------------------
(* ButtonView (view/button.rs): a button registered with the router, laid  *)
(* out and prepared for drawing, with the window events that reach it      *)

(* The ButtonView was constructed and not dropped *)
ButtonViewExists ==
    /\ button_view # 0
    /\ handles[button_view].live > 0

(* The ButtonView's dispatch target *)
ButtonObject ==
    handles[button_view].object

(* ButtonView::new *)
ButtonViewNew ==
    /\ Running
    /\ ~ButtonViewExists
    /\ next_object <= MaxListeners
    /\ listeners' = Registered(listeners, DefaultBounds, next_object)
    /\ handles' = Append(handles, [ index |-> RegisteredIndex(listeners),
                                    object |-> next_object,
                                    live |-> 1,
                                    dropped |-> FALSE ])
    /\ next_object' = next_object + 1
    /\ dispatch_state' = [dispatch_state EXCEPT ![next_object] = "Idle"]
    /\ state_updated' = [state_updated EXCEPT ![next_object] = TRUE]
    /\ button_view' = Len(handles) + 1
    /\ rect_bounds' = DefaultBounds
    /\ needs_update_bounds' = TRUE
    /\ style_shown' = "Idle"
    /\ styles_updated' = FALSE
    /\ events' = <<>>
    /\ should_redraw' = FALSE
    /\ rescanned' = FALSE
    /\ UNCHANGED <<cursor_position, scale_factor, bounds_changed, button_states,
                   router_alive, panicked, press_where, last_hover>>
    /\ UNCHANGED buttonVars
    /\ UNCHANGED lockVars
    /\ UNCHANGED <<viewVars, stackVars, containerVars, lazyVars>>

(* ButtonView::apply_bounds *)
ButtonViewApplyBounds(bounds) ==
    /\ ~panicked
    /\ ButtonViewExists
    /\ rect_bounds' = bounds
    /\ needs_update_bounds' = TRUE
    /\ UNCHANGED <<button_view, style_shown, styles_updated>>
    /\ UNCHANGED routerVars
    /\ UNCHANGED buttonVars
    /\ UNCHANGED lockVars
    /\ UNCHANGED <<viewVars, stackVars, containerVars, lazyVars>>

(* ButtonView::prepare_for_drawing *)
ButtonViewPrepareForDrawing ==
    /\ ~panicked
    /\ ButtonViewExists
    /\ state_updated' = [state_updated EXCEPT ![ButtonObject] = FALSE]
    /\ styles_updated' = state_updated[ButtonObject]
    /\ style_shown' = IF state_updated[ButtonObject]
                      THEN dispatch_state[ButtonObject]
                      ELSE style_shown
    /\ IF needs_update_bounds
       THEN BoundsUpdated(button_view, rect_bounds)
       ELSE UNCHANGED <<listeners, bounds_changed, panicked>>
    /\ events' = <<>>
    /\ should_redraw' = FALSE
    /\ rescanned' = FALSE
    /\ UNCHANGED <<dispatch_state, last_hover>>
    /\ UNCHANGED <<cursor_position, scale_factor, button_states, router_alive,
                   handles, next_object, press_where>>
    /\ UNCHANGED <<button_view, rect_bounds, needs_update_bounds>>
    /\ UNCHANGED buttonVars
    /\ UNCHANGED lockVars
    /\ UNCHANGED <<viewVars, stackVars, containerVars, lazyVars>>

ButtonViewNext ==
    \/ ButtonViewNew
    \/ \E b \in BoundsChoices : ButtonViewApplyBounds(b)
    \/ ButtonViewPrepareForDrawing
    \/ \E h \in 1 .. Len(handles) : DropHandle(h)
    \/ DropRouter
    \/ \E p \in PhysicalPositions : CursorMoved(p)
    \/ CursorLeft
    \/ \E b \in InputButtons, pressed \in BOOLEAN : MouseInput(b, pressed)
    \/ RedrawRequested

SpecButtonView ==
    Init /\ [][ButtonViewNext]_vars

----------------------------------------------------------------------------
(* The locks of the router: which Mutex each operation takes, in which     *)
(* order, and what it runs while holding it.  Threads call the router's    *)
(* operations; a dispatch callback may itself call one.                    *)

(* The operations a thread or a dispatch callback calls on the router.     *)
(* "scan" is a window event that only scans (ScaleFactorChanged, a         *)
(* RedrawRequested that finds bounds_changed set), "cursor" one that       *)
(* stores the cursor position first, "input" a MouseInput                  *)
ListenerOps ==
    {"register_listener", "update_bounds", "drop"}

WindowOps ==
    {"cursor", "input", "scan"}

(* Where an operation starts *)
FirstPc(op) ==
    CASE op = "cursor" -> "set_cursor.lock"
      [] op = "input" -> "input.lock"
      [] op = "scan" -> "scan.cursor.lock"
      [] OTHER -> "op.lock"

(* The Mutex::lock() calls: the lock each one takes *)
Wants(pc) ==
    CASE pc \in {"set_cursor.lock", "scan.cursor.lock"} -> "cursor_position"
      [] pc \in {"input.lock", "scan.buttons.lock"} -> "button_states"
      [] pc \in {"scan.listeners.lock", "callback.lock", "op.lock"} -> "listeners"
      [] OTHER -> "none"

(* Mutant: MouseInput keeps its button_states guard while it scans *)
AfterLockInputHeld(pc) ==
    CASE pc = "set_cursor.lock" -> "set_cursor.unlock"
      [] pc = "input.lock" -> "scan.cursor.lock"
      [] pc = "scan.cursor.lock" -> "scan.cursor.unlock"
      [] pc = "scan.listeners.lock" -> "scan.buttons.lock"
      [] pc = "scan.buttons.lock" -> "scan.loop"
      [] pc = "callback.lock" -> "callback.unlock"
      [] pc = "op.lock" -> "op.unlock"
      [] OTHER -> pc

(* ... and where the thread is once it has it *)
AfterLock(pc) ==
    CASE pc = "set_cursor.lock" -> "set_cursor.unlock"
      [] pc = "input.lock" -> "input.unlock"
      [] pc = "scan.cursor.lock" -> "scan.cursor.unlock"
      [] pc = "scan.listeners.lock" -> "scan.buttons.lock"
      [] pc = "scan.buttons.lock" -> "scan.loop"
      [] pc = "callback.lock" -> "callback.unlock"
      [] pc = "op.lock" -> "op.unlock"
      [] OTHER -> pc

(* The points where a guard is dropped: the lock it frees *)
Frees(pc) ==
    CASE pc \in {"set_cursor.unlock", "scan.cursor.unlock"} -> "cursor_position"
      [] pc \in {"input.unlock", "scan.buttons.unlock"} -> "button_states"
      [] pc \in {"scan.listeners.unlock", "callback.unlock", "op.unlock"}
            -> "listeners"
      [] OTHER -> "none"

(* ... and where the thread goes on; scan_events returns at once when the  *)
(* cursor position it read is unknown                                      *)
AfterUnlock(pc, cursor_known) ==
    CASE pc \in {"set_cursor.unlock", "input.unlock"} -> "scan.cursor.lock"
      [] pc = "scan.cursor.unlock" ->
            IF cursor_known THEN "scan.listeners.lock" ELSE "idle"
      [] pc = "scan.buttons.unlock" -> "scan.listeners.unlock"
      [] pc = "callback.unlock" -> "scan.loop"
      [] OTHER -> "idle"

(* Mutant: a thread may lock again a Mutex it holds *)
CanAcquireReentrant(owner, t) ==
    owner \in {0, t}

(* Mutex::lock returns when the Mutex is free; called by the thread that   *)
(* holds it, it does not return                                            *)
CanAcquire(owner, t) ==
    owner = 0

(* A thread calls an operation of the router *)
LockBegin(t, op) ==
    /\ thread_pc[t] = "idle"
    /\ thread_pc' = [thread_pc EXCEPT ![t] = FirstPc(op)]
    /\ thread_op' = [thread_op EXCEPT ![t] = op]
    /\ UNCHANGED <<lock_owner, callback_op, visited>>
    /\ UNCHANGED <<routerVars, buttonVars, viewVars, stackVars, containerVars,
                   buttonViewVars, lazyVars>>

(* mutex.lock().unwrap() *)
LockAcquire(t) ==
    /\ Wants(thread_pc[t]) # "none"
    /\ CanAcquire(lock_owner[Wants(thread_pc[t])], t)
    /\ lock_owner' = [lock_owner EXCEPT ![Wants(thread_pc[t])] = t]
    /\ thread_pc' = [thread_pc EXCEPT ![t] = AfterLock(@)]
    /\ UNCHANGED <<thread_op, callback_op, visited>>
    /\ UNCHANGED <<routerVars, buttonVars, viewVars, stackVars, containerVars,
                   buttonViewVars, lazyVars>>

(* A guard goes out of scope *)
LockRelease(t, cursor_known) ==
    /\ Frees(thread_pc[t]) # "none"
    /\ thread_pc[t] # "scan.cursor.unlock" => cursor_known
    /\ lock_owner' = [lock_owner EXCEPT ![Frees(thread_pc[t])] = 0]
    /\ thread_pc' = [thread_pc EXCEPT ![t] = AfterUnlock(@, cursor_known)]
    /\ thread_op' = [thread_op EXCEPT ![t] =
                        IF thread_pc'[t] = "idle" THEN "none" ELSE @]
    /\ callback_op' = [callback_op EXCEPT ![t] =
                          IF thread_pc[t] = "callback.unlock" THEN "none" ELSE @]
    /\ UNCHANGED visited
    /\ UNCHANGED <<routerVars, buttonVars, viewVars, stackVars, containerVars,
                   buttonViewVars, lazyVars>>

(* scan_events visits the next listener: it has no notification for it, or *)
(* it calls its mouse_event, which calls `op` on the router ("none": it    *)
(* calls nothing)                                                          *)
ScanVisit(t, notify, op) ==
    /\ thread_pc[t] = "scan.loop"
    /\ visited[t] < MaxListeners
    /\ visited' = [visited EXCEPT ![t] = @ + 1]
    /\ ~notify => op = "none"
    /\ thread_pc' = [thread_pc EXCEPT ![t] =
                        IF notify THEN "callback" ELSE "scan.loop"]
    /\ callback_op' = [callback_op EXCEPT ![t] = op]
    /\ UNCHANGED <<lock_owner, thread_op>>
    /\ UNCHANGED <<routerVars, buttonVars, viewVars, stackVars, containerVars,
                   buttonViewVars, lazyVars>>

(* The callback runs: it returns, or it reaches its call into the router,  *)
(* all of which start by locking the listener table                        *)
CallbackRun(t) ==
    /\ thread_pc[t] = "callback"
    /\ thread_pc' = [thread_pc EXCEPT ![t] =
                        IF callback_op[t] = "none" THEN "scan.loop"
                        ELSE "callback.lock"]
    /\ UNCHANGED <<lock_owner, thread_op, callback_op, visited>>
    /\ UNCHANGED <<routerVars, buttonVars, viewVars, stackVars, containerVars,
                   buttonViewVars, lazyVars>>

(* The loop over the listeners is over *)
ScanDone(t) ==
    /\ thread_pc[t] = "scan.loop"
    /\ thread_pc' = [thread_pc EXCEPT ![t] = "scan.buttons.unlock"]
    /\ visited' = [visited EXCEPT ![t] = 0]
    /\ UNCHANGED <<lock_owner, thread_op, callback_op>>
    /\ UNCHANGED <<routerVars, buttonVars, viewVars, stackVars, containerVars,
                   buttonViewVars, lazyVars>>

LockNext ==
    \/ \E t \in Threads, op \in WindowOps \cup ListenerOps : LockBegin(t, op)
    \/ \E t \in Threads : LockAcquire(t)
    \/ \E t \in Threads, cursor_known \in BOOLEAN : LockRelease(t, cursor_known)
    \/ \E t \in Threads, notify \in BOOLEAN, op \in ListenerOps \cup {"none"} :
           ScanVisit(t, notify, op)
    \/ \E t \in Threads : CallbackRun(t)
    \/ \E t \in Threads : ScanDone(t)

SpecLocks ==
    Init /\ [][LockNext]_vars

----------------------------------------------------------------------------
(* A leaf view driven through the entry points of the context *)

(* The two contexts of the repository: view/ui_context.rs and             *)
(* view/view_context.rs                                                   *)
Contexts ==
    {"UiContext", "ViewContext"}

(* View::apply_bounds: RectView::set_bounds_ marks the view for update *)
AppliedNeedsUpdate(kind, needs_update) ==
    IF kind = "RectView" THEN TRUE ELSE needs_update

(* View::prepare_for_drawing: whether `raw` exists afterwards.  RectView   *)
(* and TextView create it; ImageView creates it only from a texture        *)
PreparedRaw(kind, raw, texture, texture_updated) ==
    IF kind = "ImageView"
    THEN IF (texture_updated \/ ~raw) /\ texture THEN TRUE ELSE raw
    ELSE TRUE

(* View::draw: "drawn", or "warned" (a warning is logged and nothing is   *)
(* drawn), "skipped" (nothing is drawn and nothing logged), "panicked"    *)
Drawn(kind, raw, needs_update) ==
    CASE kind = "RectView" ->
            IF raw /\ ~needs_update THEN "drawn" ELSE "warned"
      [] kind = "TextView" ->
            IF raw THEN "drawn" ELSE "panicked"
      [] kind = "ImageView" ->
            IF raw THEN "drawn" ELSE "skipped"

(* The View calls prepare_view makes, in order *)
PrepareViewCalls(context) ==
    <<"preferred_size", "apply_bounds", "prepare_for_drawing">>

(* The View calls prepare_view_bounded makes, in order *)
PrepareViewBoundedCalls(context) ==
    IF context = "UiContext"
    THEN <<"preferred_size", "apply_bounds", "prepare_for_drawing">>
    ELSE <<"apply_bounds", "prepare_for_drawing">>

ViewRunning ==
    view_kind # "none" /\ draw_outcome # "panicked"

(* RectView::new, TextView::new, ImageView::new *)
ViewNew(kind) ==
    /\ view_kind = "none"
    /\ view_kind' = kind
    /\ view_needs_update' = (kind = "RectView")
    /\ NothingPrepared
    /\ UNCHANGED <<view_raw, view_texture, view_texture_updated, view_calls,
                   draw_outcome>>
    /\ UNCHANGED <<routerVars, buttonVars, lockVars, stackVars, containerVars,
                   buttonViewVars, lazyVars>>

(* The view after apply_bounds and prepare_for_drawing *)
Prepared(calls) ==
    /\ ViewRunning
    /\ Len(view_calls) + Len(calls) <= MaxCalls
    /\ view_calls' = view_calls \o calls
    /\ view_raw' = PreparedRaw(view_kind, view_raw, view_texture,
                               view_texture_updated)
    /\ view_needs_update' =
           IF view_kind = "RectView"
           THEN FALSE
           ELSE AppliedNeedsUpdate(view_kind, view_needs_update)
    /\ UNCHANGED <<view_kind, view_texture, view_texture_updated, draw_outcome>>
    /\ UNCHANGED <<routerVars, buttonVars, lockVars, stackVars, containerVars,
                   buttonViewVars, lazyVars>>

(* The canvas sizes, origins and preferred sizes prepare_view is tried on *)
CanvasSizes ==
    {<<F(100), F(50)>>}

Origins ==
    {<<F(0), F(0)>>, <<F(10), F(5)>>, <<F(90), F(45)>>}

PreferredSizes ==
    {<<F(40), F(10)>>, <<F(200), F(100)>>}

(* UiContext::prepare_view: `availible_size`, the canvas width less        *)
(* origin.x and the whole canvas height                                    *)
AvailibleSize(canvas, origin) ==
    <<FSub(canvas[1], origin[1]), canvas[2]>>

(* The bounds prepare_view assigns: UiContext cuts the requested size to   *)
(* the available size, ViewContext takes it as it is                       *)
PrepareViewBounds(context, canvas, origin, size) ==
    IF context = "UiContext"
    THEN BoundsNew(origin, SizeMin(AvailibleSize(canvas, origin), size))
    ELSE BoundsNew(origin, size)

(* prepare_view on a canvas, an origin and a view preferring `size` *)
PrepareView(context, canvas, origin, size) ==
    /\ Prepared(PrepareViewCalls(context))
    /\ root_context' = context
    /\ canvas_size' = canvas
    /\ root_requested' = size
    /\ root_bounds' = PrepareViewBounds(context, canvas, origin, size)

PrepareViewBounded(context) ==
    /\ Prepared(PrepareViewBoundedCalls(context))
    /\ NothingPrepared

(* draw_view *)
DrawView ==
    /\ ViewRunning
    /\ Len(view_calls) < MaxCalls
    /\ view_calls' = Append(view_calls, "draw")
    /\ draw_outcome' = Drawn(view_kind, view_raw, view_needs_update)
    /\ NothingPrepared
    /\ UNCHANGED <<view_kind, view_raw, view_needs_update, view_texture,
                   view_texture_updated>>
    /\ UNCHANGED <<routerVars, buttonVars, lockVars, stackVars, containerVars,
                   buttonViewVars, lazyVars>>

(* A property setter of the view: RectView's set needs_update; ImageView's *)
(* set_texture stores the texture (or None)                                *)
SetProperty(texture) ==
    /\ ViewRunning
    /\ view_kind # "ImageView" => texture
    /\ view_needs_update' = (view_kind = "RectView" \/ view_needs_update)
    /\ view_texture' = IF view_kind = "ImageView" THEN texture ELSE view_texture
    /\ view_texture_updated' = (view_kind = "ImageView" \/ view_texture_updated)
    /\ NothingPrepared
    /\ UNCHANGED <<view_kind, view_raw, view_calls, draw_outcome>>
    /\ UNCHANGED <<routerVars, buttonVars, lockVars, stackVars, containerVars,
                   buttonViewVars, lazyVars>>

(* The next frame begins *)
BeginFrame ==
    /\ ViewRunning
    /\ view_calls # <<>>
    /\ view_calls' = <<>>
    /\ draw_outcome' = "none"
    /\ NothingPrepared
    /\ UNCHANGED <<view_kind, view_raw, view_needs_update, view_texture,
                   view_texture_updated>>
    /\ UNCHANGED <<routerVars, buttonVars, lockVars, stackVars, containerVars,
                   buttonViewVars, lazyVars>>

ViewNext ==
    \/ \E kind \in LeafViews : ViewNew(kind)
    \/ \E context \in Contexts, canvas \in CanvasSizes, origin \in Origins,
          size \in PreferredSizes :
           PrepareView(context, canvas, origin, size)
    \/ \E context \in Contexts : PrepareViewBounded(context)
    \/ DrawView
    \/ \E texture \in BOOLEAN : SetProperty(texture)
    \/ BeginFrame

SpecViews ==
    Init /\ [][ViewNext]_vars

----------------------------------------------------------------------------
(* The operations of a stack *)

(* stack_size, stack_bounds and subview_bounds tell what the last          *)
(* operation on the stack returned or assigned; an operation other than   *)
(* preferred_size and apply_bounds returns and assigns nothing            *)
NothingReturned ==
    /\ stack_size' = NoSize
    /\ stack_bounds' = NoBounds
    /\ subview_bounds' = <<>>
    /\ n_subviews_warned' = FALSE

(* The setters of StackBuilder may be called until finish; those of        *)
(* StackView at any time                                                   *)
Configurable ==
    stack_kind = "StackView" \/ (stack_kind = "Stack" /\ ~finished)

(* StackBuilder::set_padding_type, StackView::set_padding_type *)
SetPaddingType(type) ==
    /\ Configurable
    /\ padding_type' = type
    /\ UNCHANGED <<stack_kind, axis, fixed_padding, alignment_alpha,
                   alignment_beta, shrink_together, finished, subviews,
                   subview_sizes, alpha_sum, beta_max, beta_max_finite>>
    /\ NothingReturned
    /\ UNCHANGED <<routerVars, buttonVars, lockVars, viewVars, containerVars,
                   buttonViewVars, lazyVars>>

(* StackBuilder::set_fixed_padding, StackView::set_fixed_padding *)
SetFixedPadding(padding) ==
    /\ Configurable
    /\ fixed_padding' = padding
    /\ UNCHANGED <<stack_kind, axis, padding_type, alignment_alpha,
                   alignment_beta, shrink_together, finished, subviews,
                   subview_sizes, alpha_sum, beta_max, beta_max_finite>>
    /\ NothingReturned
    /\ UNCHANGED <<routerVars, buttonVars, lockVars, viewVars, containerVars,
                   buttonViewVars, lazyVars>>

(* StackBuilder::set_alignment_horizontal *)
SetAlignmentHorizontal(alignment) ==
    /\ stack_kind = "Stack"
    /\ ~finished
    /\ alignment_alpha' =
           IF axis = "Horizontal" THEN alignment ELSE alignment_alpha
    /\ alignment_beta' =
           IF axis = "Horizontal" THEN alignment_beta ELSE alignment
    /\ UNCHANGED <<stack_kind, axis, padding_type, fixed_padding,
                   shrink_together, finished, subviews, subview_sizes,
                   alpha_sum, beta_max, beta_max_finite>>
    /\ NothingReturned
    /\ UNCHANGED <<routerVars, buttonVars, lockVars, viewVars, containerVars,
                   buttonViewVars, lazyVars>>

(* StackBuilder::set_alignment_vertical *)
SetAlignmentVertical(alignment) ==
    /\ stack_kind = "Stack"
    /\ ~finished
    /\ alignment_alpha' =
           IF axis = "Horizontal" THEN alignment_alpha ELSE alignment
    /\ alignment_beta' =
           IF axis = "Horizontal" THEN alignment ELSE alignment_beta
    /\ UNCHANGED <<stack_kind, axis, padding_type, fixed_padding,
                   shrink_together, finished, subviews, subview_sizes,
                   alpha_sum, beta_max, beta_max_finite>>
    /\ NothingReturned
    /\ UNCHANGED <<routerVars, buttonVars, lockVars, viewVars, containerVars,
                   buttonViewVars, lazyVars>>

(* StackBuilder::set_shrink_together *)
SetShrinkTogether(together) ==
    /\ stack_kind = "Stack"
    /\ ~finished
    /\ shrink_together' = together
    /\ UNCHANGED <<stack_kind, axis, padding_type, fixed_padding,
                   alignment_alpha, alignment_beta, finished, subviews,
                   subview_sizes, alpha_sum, beta_max, beta_max_finite>>
    /\ NothingReturned
    /\ UNCHANGED <<routerVars, buttonVars, lockVars, viewVars, containerVars,
                   buttonViewVars, lazyVars>>

(* StackBuilder::subview, Stack::subview: measures the subview and keeps   *)
(* its size with it                                                        *)
Subview(size) ==
    /\ stack_kind = "Stack"
    /\ ~finished
    /\ Len(subviews) < MaxSubviews
    /\ subviews' = Append(subviews, size)
    /\ subview_sizes' = Append(subview_sizes, size)
    /\ alpha_sum' = FAdd(alpha_sum, Alpha(axis, size))
    /\ beta_max' = FMax(beta_max, Beta(axis, size))
    /\ beta_max_finite' =
           IF IsFinite(Beta(axis, size))
           THEN FMax(beta_max_finite, Beta(axis, size))
           ELSE beta_max_finite
    /\ UNCHANGED <<stack_kind, axis, padding_type, fixed_padding,
                   alignment_alpha, alignment_beta, shrink_together,
                   finished>>
    /\ NothingReturned
    /\ UNCHANGED <<routerVars, buttonVars, lockVars, viewVars, containerVars,
                   buttonViewVars, lazyVars>>

(* StackBuilder::finish *)
Finish ==
    /\ stack_kind = "Stack"
    /\ ~finished
    /\ finished' = TRUE
    /\ UNCHANGED <<stack_kind, axis, padding_type, fixed_padding,
                   alignment_alpha, alignment_beta, shrink_together,
                   subviews, subview_sizes, alpha_sum, beta_max,
                   beta_max_finite>>
    /\ NothingReturned
    /\ UNCHANGED <<routerVars, buttonVars, lockVars, viewVars, containerVars,
                   buttonViewVars, lazyVars>>

(* Sum of the alpha lengths of sizes, as the loop of                       *)
(* StackView::preferred_size accumulates it                                *)
RECURSIVE LengthAlphaTotal(_, _)
LengthAlphaTotal(a, sizes) ==
    IF sizes = <<>>
    THEN F(0)
    ELSE FAdd(LengthAlphaTotal(a, SubSeq(sizes, 1, Len(sizes) - 1)),
              Alpha(a, sizes[Len(sizes)]))

(* Max of the beta lengths of sizes, as the loop of                        *)
(* StackView::preferred_size accumulates it                                *)
RECURSIVE LengthBetaMax(_, _)
LengthBetaMax(a, sizes) ==
    IF sizes = <<>>
    THEN F(0)
    ELSE FMax(LengthBetaMax(a, SubSeq(sizes, 1, Len(sizes) - 1)),
              Beta(a, sizes[Len(sizes)]))

(* The size both preferred_size functions return: the total alpha length   *)
(* of the subviews plus the paddings, and the largest beta length          *)
PreferredSize(a, length_alpha, length_beta, n_subviews, type, padding) ==
    NewOnAxis(a,
              FAdd(length_alpha,
                   FMul(F(NPaddings(n_subviews, type)),
                        UnwrapOr(padding, F(0)))),
              length_beta)

(* Stack::preferred_size, StackView::preferred_size *)
StackPreferredSize ==
    /\ finished
    /\ IF stack_kind = "Stack"
       THEN /\ stack_size' = PreferredSize(axis, alpha_sum, beta_max,
                                           Len(subviews), padding_type,
                                           fixed_padding)
            /\ UNCHANGED <<subview_sizes, alpha_sum>>
       ELSE /\ subview_sizes' = subviews
            /\ alpha_sum' = LengthAlphaTotal(axis, subviews)
            /\ stack_size' = PreferredSize(axis,
                                           LengthAlphaTotal(axis, subviews),
                                           LengthBetaMax(axis, subviews),
                                           Len(subviews), padding_type,
                                           fixed_padding)
    /\ UNCHANGED <<stack_kind, axis, padding_type, fixed_padding,
                   alignment_alpha, alignment_beta, shrink_together,
                   finished, subviews, beta_max, beta_max_finite>>
    /\ stack_bounds' = NoBounds
    /\ subview_bounds' = <<>>
    /\ n_subviews_warned' = FALSE
    /\ UNCHANGED <<routerVars, buttonVars, lockVars, viewVars, containerVars,
                   buttonViewVars, lazyVars>>

(* origin + offset *)
PointAdd(origin, offset) ==
    <<FAdd(origin[1], offset[1]), FAdd(origin[2], offset[2])>>

(* Mutant: the padding is added before every subview *)
PaddedBeforeEvery(i, type) ==
    TRUE

(* Stack::apply_bounds: the subviews (counted from 1) that padding_body is *)
(* added before                                                            *)
PaddedBefore(i, type) ==
    i # 1 \/ type = "Omnipadded"

(* The loop of Stack::apply_bounds from subview i on: the bounds given to  *)
(* the subviews i, i + 1, ...                                              *)
RECURSIVE StackWalk(_, _, _, _, _, _)
StackWalk(bounds, i, offset_a, shrink_a, shrink_b, padding_body) ==
    IF i > Len(subview_sizes)
    THEN <<>>
    ELSE LET offset ==
                 IF PaddedBefore(i, padding_type)
                 THEN FAdd(offset_a, padding_body)
                 ELSE offset_a
             requested_size ==
                 ScaledOnAxis(axis, subview_sizes[i], shrink_a, shrink_b)
             remaining_size ==
                 NewOnAxis(axis,
                           FSub(Alpha(axis, bounds.size), offset),
                           Beta(axis, bounds.size))
             subview_size == SizeMin(requested_size, remaining_size)
             leftover_beta ==
                 FSub(Beta(axis, bounds.size), Beta(axis, subview_size))
             offset_b == FMul(AlignmentRatio(alignment_beta), leftover_beta)
         IN  <<BoundsNew(PointAdd(bounds.origin,
                                  NewOnAxis(axis, offset, offset_b)),
                         subview_size)>>
             \o StackWalk(bounds, i + 1,
                          FAdd(offset, Alpha(axis, subview_size)),
                          shrink_a, shrink_b, padding_body)

(* The offset before the first subview, always at the leading edge *)
PaddingLeadingFlush(padding, alignment, leftover_alpha) ==
    F(0)

(* The alignment offset applied whether or not a padding is fixed *)
PaddingLeadingAlways(padding, alignment, leftover_alpha) ==
    FMul(AlignmentRatio(alignment), leftover_alpha)

(* padding_leading of Stack::apply_bounds *)
PaddingLeading(padding, alignment, leftover_alpha) ==
    IF padding = NoPadding
    THEN F(0)
    ELSE FMul(AlignmentRatio(alignment), leftover_alpha)

(* A stack that never shrinks its subviews *)
ShrinkNever(length, min_length) ==
    F(1)

(* shrink_a and shrink_b of Stack::apply_bounds: the factor that fits      *)
(* min_length into length, at most 1                                       *)
Shrink(length, min_length) ==
    FMin(FDiv(length, min_length), F(1))

(* Stack::apply_bounds: the bounds given to the subviews, in order *)
StackApplied(bounds) ==
    LET n_paddings == F(NPaddings(Len(subview_sizes), padding_type))
        min_alpha ==
            FAdd(alpha_sum, FMul(n_paddings, UnwrapOr(fixed_padding, F(0))))
        leftover_alpha ==
            FMax(FSub(Alpha(axis, bounds.size), min_alpha), F(0))
        shrink_a == Shrink(Alpha(axis, bounds.size), min_alpha)
        shrink_b ==
            IF shrink_together
            THEN Shrink(Beta(axis, bounds.size), beta_max_finite)
            ELSE F(1)
        padding_leading ==
            PaddingLeading(fixed_padding, alignment_alpha, leftover_alpha)
        padding_body ==
            IF fixed_padding # NoPadding
            THEN FMul(fixed_padding, shrink_a)
            ELSE FDiv(leftover_alpha, n_paddings)
    IN  StackWalk(bounds, 1, padding_leading, shrink_a, shrink_b,
                  padding_body)

(* Mutant: the last recorded size is not handed out *)
SizesLeftButLast(i, n_sizes) ==
    i < n_sizes

(* StackView::apply_bounds: subview_sizes.next() is Some for subview i     *)
(* (counted from 1)                                                        *)
SizesLeft(i, n_sizes) ==
    i <= n_sizes

(* StackView::apply_bounds: warn_n_subviews_changed is called, for the     *)
(* first subview visited after the recorded sizes ran out                  *)
NSubviewsWarned ==
    \E i \in 1 .. Len(subviews) : ~SizesLeft(i, Len(subview_sizes))

(* The loop of StackView::apply_bounds from subview i on; it stops when    *)
(* the recorded sizes run out                                              *)
RECURSIVE StackViewWalk(_, _, _, _)
StackViewWalk(bounds, i, offset_alpha, padding) ==
    IF i > Len(subviews) \/ ~SizesLeft(i, Len(subview_sizes))
    THEN <<>>
    ELSE LET remaining_size ==
                 NewOnAxis(axis,
                           FAdd(FSub(Alpha(axis, bounds.size), offset_alpha),
                                Alpha(axis, bounds.origin)),
                           Beta(axis, bounds.size))
             subview_size == SizeMin(subview_sizes[i], remaining_size)
             offset_beta ==
                 FAdd(Beta(axis, bounds.origin),
                      FMul(<<1, 2>>,
                           FSub(Beta(axis, bounds.size),
                                Beta(axis, subview_size))))
         IN  <<BoundsNew(NewOnAxis(axis, offset_alpha, offset_beta),
                         subview_size)>>
             \o StackViewWalk(bounds, i + 1,
                              FAdd(FAdd(offset_alpha, padding),
                                   Alpha(axis, subview_size)),
                              padding)

(* StackView::apply_bounds: the bounds given to the subviews, in order *)
StackViewApplied(bounds) ==
    LET n_paddings == NPaddings(Len(subview_sizes), padding_type)
        padding ==
            IF fixed_padding # NoPadding
            THEN fixed_padding
            ELSE FDiv(FSub(Alpha(axis, bounds.size), alpha_sum),
                      F(n_paddings))
        offset_alpha ==
            IF padding_type = "Interpadded"
            THEN FAdd(Alpha(axis, bounds.origin), F(0))
            ELSE FAdd(Alpha(axis, bounds.origin), padding)
    IN  StackViewWalk(bounds, 1, offset_alpha, padding)

(* Stack::apply_bounds, StackView::apply_bounds *)
StackApplyBounds(bounds) ==
    /\ finished
    /\ stack_bounds' = bounds
    /\ subview_bounds' =
           IF stack_kind = "Stack"
           THEN StackApplied(bounds)
           ELSE StackViewApplied(bounds)
    /\ n_subviews_warned' = (stack_kind = "StackView" /\ NSubviewsWarned)
    /\ UNCHANGED <<stack_kind, axis, padding_type, fixed_padding,
                   alignment_alpha, alignment_beta, shrink_together,
                   finished, subviews, subview_sizes, alpha_sum, beta_max,
                   beta_max_finite>>
    /\ stack_size' = NoSize
    /\ UNCHANGED <<routerVars, buttonVars, lockVars, viewVars, containerVars,
                   buttonViewVars, lazyVars>>

(* A layout pass builds its Stack anew: StackBuilder::new, Stack::new *)
StackNew(a) ==
    /\ stack_kind = "none" \/ (stack_kind = "Stack" /\ finished)
    /\ stack_kind' = "Stack"
    /\ axis' = a
    /\ padding_type' = "Interpadded"
    /\ fixed_padding' = NoPadding
    /\ alignment_alpha' = Center
    /\ alignment_beta' = Center
    /\ shrink_together' = FALSE
    /\ finished' = FALSE
    /\ subviews' = <<>>
    /\ subview_sizes' = <<>>
    /\ alpha_sum' = F(0)
    /\ beta_max' = F(0)
    /\ beta_max_finite' = F(0)
    /\ NothingReturned
    /\ UNCHANGED <<routerVars, buttonVars, lockVars, viewVars, containerVars,
                   buttonViewVars, lazyVars>>

(* StackView::new(axis, subviews) *)
StackViewNew(a, views) ==
    /\ stack_kind = "none"
    /\ stack_kind' = "StackView"
    /\ axis' = a
    /\ padding_type' = "Interpadded"
    /\ fixed_padding' = NoPadding
    /\ finished' = TRUE
    /\ subviews' = views
    /\ subview_sizes' = <<>>
    /\ alpha_sum' = F(0)
    /\ UNCHANGED <<alignment_alpha, alignment_beta, shrink_together,
                   beta_max, beta_max_finite>>
    /\ NothingReturned
    /\ UNCHANGED <<routerVars, buttonVars, lockVars, viewVars, containerVars,
                   buttonViewVars, lazyVars>>

(* The view list of a StackView visits one more subview from now on: a    *)
(* list over a collection (the iter fields of impl_view_list_mut) that     *)
(* has grown                                                               *)
ViewListPush(size) ==
    /\ stack_kind = "StackView"
    /\ Len(subviews) < MaxSubviews
    /\ subviews' = Append(subviews, size)
    /\ UNCHANGED <<stack_kind, axis, padding_type, fixed_padding,
                   alignment_alpha, alignment_beta, shrink_together,
                   finished, subview_sizes, alpha_sum, beta_max,
                   beta_max_finite>>
    /\ NothingReturned
    /\ UNCHANGED <<routerVars, buttonVars, lockVars, viewVars, containerVars,
                   buttonViewVars, lazyVars>>

StackNext ==
    \/ \E size \in SubviewSizes : ViewListPush(size)
    \/ \E type \in PaddingTypes : SetPaddingType(type)
    \/ \E padding \in Paddings : SetFixedPadding(padding)
    \/ \E alignment \in Alignments : SetAlignmentHorizontal(alignment)
    \/ \E alignment \in Alignments : SetAlignmentVertical(alignment)
    \/ \E together \in BOOLEAN : SetShrinkTogether(together)
    \/ \E size \in SubviewSizes : Subview(size)
    \/ Finish
    \/ StackPreferredSize
    \/ \E bounds \in StackBounds : StackApplyBounds(bounds)
    \/ \E a \in Axes : StackNew(a)
    \/ \E a \in Axes, views \in SeqUpTo(SubviewSizes, MaxSubviews) :
           StackViewNew(a, views)

SpecStack ==
    Init /\ [][StackNext]_vars

----------------------------------------------------------------------------
(* The operations of a container *)

(* container_size, container_bounds and container_subview_bounds tell what *)
(* the last operation on the container returned or assigned                *)
ContainerReturnedNothing ==
    /\ container_size' = NoSize
    /\ container_bounds' = NoBounds
    /\ container_subview_bounds' = NoBounds

ContainerExists ==
    container_subview_size # NoSize

(* LayoutPass::container, Container::new: measures the subview *)
ContainerNew(size) ==
    /\ container_subview_size' = size
    /\ padding_left' = Fixed(F(0))
    /\ padding_right' = Fixed(F(0))
    /\ padding_top' = Fixed(F(0))
    /\ padding_bottom' = Fixed(F(0))
    /\ spread_ratio_horizontal' = <<1, 2>>
    /\ spread_ratio_vertical' = <<1, 2>>
    /\ override_size' = NoSize
    /\ ContainerReturnedNothing
    /\ UNCHANGED <<routerVars, buttonVars, lockVars, viewVars, stackVars,
                   buttonViewVars, lazyVars>>

(* Container::set_padding_left *)
SetPaddingLeft(padding) ==
    /\ ContainerExists
    /\ padding_left' = padding
    /\ UNCHANGED <<padding_right, padding_top, padding_bottom,
                   spread_ratio_horizontal, spread_ratio_vertical,
                   container_subview_size, override_size>>
    /\ ContainerReturnedNothing
    /\ UNCHANGED <<routerVars, buttonVars, lockVars, viewVars, stackVars,
                   buttonViewVars, lazyVars>>

(* Container::set_padding_right *)
SetPaddingRight(padding) ==
    /\ ContainerExists
    /\ padding_right' = padding
    /\ UNCHANGED <<padding_left, padding_top, padding_bottom,
                   spread_ratio_horizontal, spread_ratio_vertical,
                   container_subview_size, override_size>>
    /\ ContainerReturnedNothing
    /\ UNCHANGED <<routerVars, buttonVars, lockVars, viewVars, stackVars,
                   buttonViewVars, lazyVars>>

(* Container::set_padding_top *)
SetPaddingTop(padding) ==
    /\ ContainerExists
    /\ padding_top' = padding
    /\ UNCHANGED <<padding_left, padding_right, padding_bottom,
                   spread_ratio_horizontal, spread_ratio_vertical,
                   container_subview_size, override_size>>
    /\ ContainerReturnedNothing
    /\ UNCHANGED <<routerVars, buttonVars, lockVars, viewVars, stackVars,
                   buttonViewVars, lazyVars>>

(* Container::set_padding_bottom *)
SetPaddingBottom(padding) ==
    /\ ContainerExists
    /\ padding_bottom' = padding
    /\ UNCHANGED <<padding_left, padding_right, padding_top,
                   spread_ratio_horizontal, spread_ratio_vertical,
                   container_subview_size, override_size>>
    /\ ContainerReturnedNothing
    /\ UNCHANGED <<routerVars, buttonVars, lockVars, viewVars, stackVars,
                   buttonViewVars, lazyVars>>

(* Container::set_padding: all four edges *)
SetPadding(padding) ==
    /\ ContainerExists
    /\ padding_left' = padding
    /\ padding_right' = padding
    /\ padding_top' = padding
    /\ padding_bottom' = padding
    /\ UNCHANGED <<spread_ratio_horizontal, spread_ratio_vertical,
                   container_subview_size, override_size>>
    /\ ContainerReturnedNothing
    /\ UNCHANGED <<routerVars, buttonVars, lockVars, viewVars, stackVars,
                   buttonViewVars, lazyVars>>

(* Container::set_spread_ratio_horizontal *)
SetSpreadRatioHorizontal(spread_ratio) ==
    /\ ContainerExists
    /\ spread_ratio_horizontal' = spread_ratio
    /\ UNCHANGED <<padding_left, padding_right, padding_top, padding_bottom,
                   spread_ratio_vertical, container_subview_size,
                   override_size>>
    /\ ContainerReturnedNothing
    /\ UNCHANGED <<routerVars, buttonVars, lockVars, viewVars, stackVars,
                   buttonViewVars, lazyVars>>

(* Container::set_spread_ratio_vertical *)
SetSpreadRatioVertical(spread_ratio) ==
    /\ ContainerExists
    /\ spread_ratio_vertical' = spread_ratio
    /\ UNCHANGED <<padding_left, padding_right, padding_top, padding_bottom,
                   spread_ratio_horizontal, container_subview_size,
                   override_size>>
    /\ ContainerReturnedNothing
    /\ UNCHANGED <<routerVars, buttonVars, lockVars, viewVars, stackVars,
                   buttonViewVars, lazyVars>>

(* Container::override_subview_size *)
OverrideSubviewSize(size) ==
    /\ ContainerExists
    /\ override_size' = size
    /\ UNCHANGED <<padding_left, padding_right, padding_top, padding_bottom,
                   spread_ratio_horizontal, spread_ratio_vertical,
                   container_subview_size>>
    /\ ContainerReturnedNothing
    /\ UNCHANGED <<routerVars, buttonVars, lockVars, viewVars, stackVars,
                   buttonViewVars, lazyVars>>

(* self.override_size.unwrap_or(self.subview_size) *)
RequestedSize ==
    IF override_size = NoSize THEN container_subview_size ELSE override_size

(* Container::preferred_size: the paddings are taken against an infinite   *)
(* remaining length                                                        *)
ContainerPreferredSize ==
    /\ ContainerExists
    /\ container_size' =
           LET horizontal == Padding(padding_left, padding_right,
                                     spread_ratio_horizontal,
                                     RequestedSize[1], Infinity)
               vertical == Padding(padding_top, padding_bottom,
                                   spread_ratio_vertical,
                                   RequestedSize[2], Infinity)
           IN  <<FAdd(FAdd(horizontal[1], RequestedSize[1]), horizontal[2]),
                 FAdd(FAdd(vertical[1], RequestedSize[2]), vertical[2])>>
    /\ container_bounds' = NoBounds
    /\ container_subview_bounds' = NoBounds
    /\ UNCHANGED <<padding_left, padding_right, padding_top, padding_bottom,
                   spread_ratio_horizontal, spread_ratio_vertical,
                   container_subview_size, override_size>>
    /\ UNCHANGED <<routerVars, buttonVars, lockVars, viewVars, stackVars,
                   buttonViewVars, lazyVars>>

(* Container::apply_bounds on axis k (1 for x, 2 for y): the min edge and  *)
(* the length given to the subview                                         *)
ContainerAppliedOnAxis(bounds, k, leading, trailing, spread_ratio) ==
    LET max_length ==
            FMax(FSub(FSub(bounds.size[k], AsFixedOrZero(leading)),
                      AsFixedOrZero(trailing)),
                 F(0))
        subview_length == FMin(RequestedSize[k], max_length)
        paddings ==
            Padding(leading, trailing, spread_ratio, subview_length,
                    FMax(FSub(bounds.size[k], subview_length), F(0)))
        padded_length ==
            FAdd(FAdd(paddings[1], subview_length), paddings[2])
        shrink == FMin(FDiv(bounds.size[k], padded_length), F(1))
        min_edge == FAdd(bounds.origin[k], paddings[1])
        length == FMul(subview_length, shrink)
    IN  <<min_edge,
          IF FLt(MaxEdge(bounds, k), FAdd(min_edge, length))
          THEN FMax(FSub(MaxEdge(bounds, k), min_edge), F(0))
          ELSE length>>

(* Container::apply_bounds: the bounds given to the subview *)
ContainerApplied(bounds) ==
    LET horizontal ==
            ContainerAppliedOnAxis(bounds, 1, padding_left, padding_right,
                                   spread_ratio_horizontal)
        vertical ==
            ContainerAppliedOnAxis(bounds, 2, padding_top, padding_bottom,
                                   spread_ratio_vertical)
    IN  BoundsNew(<<horizontal[1], vertical[1]>>,
                  <<horizontal[2], vertical[2]>>)

(* Container::apply_bounds *)
ContainerApplyBounds(bounds) ==
    /\ ContainerExists
    /\ container_bounds' = bounds
    /\ container_subview_bounds' = ContainerApplied(bounds)
    /\ container_size' = NoSize
    /\ UNCHANGED <<padding_left, padding_right, padding_top, padding_bottom,
                   spread_ratio_horizontal, spread_ratio_vertical,
                   container_subview_size, override_size>>
    /\ UNCHANGED <<routerVars, buttonVars, lockVars, viewVars, stackVars,
                   buttonViewVars, lazyVars>>

ContainerNext ==
    \/ \E size \in ContainerSubviewSizes : ContainerNew(size)
    \/ \E padding \in ContainerPaddings : SetPaddingLeft(padding)
    \/ \E padding \in ContainerPaddings : SetPaddingRight(padding)
    \/ \E padding \in ContainerPaddings : SetPaddingTop(padding)
    \/ \E padding \in ContainerPaddings : SetPaddingBottom(padding)
    \/ \E padding \in ContainerPaddings : SetPadding(padding)
    \/ \E spread_ratio \in SpreadRatios :
           SetSpreadRatioHorizontal(spread_ratio)
    \/ \E spread_ratio \in SpreadRatios : SetSpreadRatioVertical(spread_ratio)
    \/ \E size \in OverrideSizes : OverrideSubviewSize(size)
    \/ ContainerPreferredSize
    \/ \E bounds \in ContainerBounds : ContainerApplyBounds(bounds)

SpecContainer ==
    Init /\ [][ContainerNext]_vars

----------------------------------------------------------------------------
(* Vocabulary of the properties below *)

HoverKinds ==
    {"HoveringStart", "HoveringFinish"}

ButtonKinds ==
    {"ButtonDown", "ButtonUp"}

(* The notifications of `evs` delivered to target t *)
DeliveredTo(evs, t) ==
    SelectSeq(evs, LAMBDA e : e.target = t)

(* The kinds of the hover notifications of `evs` delivered to target t *)
HoverKindsTo(evs, t) ==
    LET hs == SelectSeq(evs, LAMBDA e : e.target = t /\ e.kind \in HoverKinds)
    IN [n \in 1 .. Len(hs) |-> hs[n].kind]

(* The elements of a sequence *)
Range(seq) ==
    {seq[n] : n \in 1 .. Len(seq)}

(* Slot k holds the same listener before and after the step *)
SameListener(k) ==
    /\ k <= Len(listeners)
    /\ k <= Len(listeners')
    /\ IsLive(listeners[k])
    /\ IsLive(listeners'[k])
    /\ listeners'[k].object = listeners[k].object

(* The step is a CursorMoved that takes the cursor from one known position *)
(* to another *)
CursorMoves ==
    /\ cursor_position # NoPos
    /\ cursor_position' # NoPos
    /\ cursor_position' # cursor_position

(* The step stores a raw press of button slot i (released before, pressed  *)
(* after)                                                                  *)
RawPress(i) ==
    ~button_states[i] /\ button_states'[i]

(* Every hover notification of the step alternates with the last one its   *)
(* target received, the first one being a HoveringStart                    *)
HoverAlternates ==
    \A t \in DOMAIN last_hover :
        LET hs == HoverKindsTo(events', t)
        IN /\ Len(hs) <= 1
           /\ Len(hs) = 1 =>
                  /\ hs[1] # last_hover[t]
                  /\ last_hover[t] = "none" => hs[1] = "HoveringStart"

(* C1 as stated: besides the alternation, a move of the cursor from a      *)
(* position outside a listener's bounds to one inside yields exactly one   *)
(* HoveringStart, from inside to outside exactly one HoveringFinish, and   *)
(* between two positions inside no hover notification.  Stated here only   *)
(* for a listener that has already received a hover notification, so that  *)
(* a listener registered under a resting cursor is not what refutes it.    *)
C1_MoveByGeometry ==
    [][ /\ HoverAlternates
        /\ \A k \in 1 .. Len(listeners) :
               (/\ SameListener(k)
                /\ CursorMoves
                /\ last_hover[listeners[k].object] # "none") =>
                   LET was == Contains(listeners[k].bounds, cursor_position)
                       now == Contains(listeners[k].bounds, cursor_position')
                       hs == HoverKindsTo(events', listeners[k].object)
                   IN /\ (~was /\ now) => hs = <<"HoveringStart">>
                      /\ (was /\ ~now) => hs = <<"HoveringFinish">>
                      /\ (was /\ now) => hs = <<>>
      ]_vars

(* C1, amended: the hover notifications delivered to one listener strictly *)
(* alternate HoveringStart, HoveringFinish, ... beginning with             *)
(* HoveringStart; a CursorMoved to a position inside the bounds yields     *)
(* exactly one HoveringStart when the listener is not recorded as hovered  *)
(* and no hover notification when it is, and a CursorMoved to a position   *)
(* outside yields exactly one HoveringFinish when the listener is recorded *)
(* as hovered and none when it is not                                      *)
C1_HoverAlternation ==
    [][ /\ HoverAlternates
        /\ \A k \in 1 .. Len(listeners) :
               (SameListener(k) /\ cursor_position' # NoPos
                    /\ cursor_position' # cursor_position) =>
                   LET now == Contains(listeners[k].bounds, cursor_position')
                       hovered == listeners[k].is_hovered
                       hs == HoverKindsTo(events', listeners[k].object)
                   IN /\ (~hovered /\ now) => hs = <<"HoveringStart">>
                      /\ (hovered /\ ~now) => hs = <<"HoveringFinish">>
                      /\ (hovered = now) => hs = <<>>
      ]_vars

(* A cursor move out of a listener's bounds has just delivered the         *)
(* HoveringFinish that follows its HoveringStart                           *)
C1_Witness ==
    /\ cursor_position # NoPos
    /\ ~bounds_changed
    /\ \E k \in 1 .. Len(listeners) :
           /\ IsLive(listeners[k])
           /\ ~Contains(listeners[k].bounds, cursor_position)
           /\ HoverKindsTo(events, listeners[k].object) = <<"HoveringFinish">>

(* The button notifications of a step respect the cursor: a ButtonDown is  *)
(* only delivered to a listener whose bounds contain the cursor            *)
DownOnlyInside ==
    \A k \in 1 .. Len(listeners') :
        IsLive(listeners'[k]) =>
            \A e \in Range(DeliveredTo(events', listeners'[k].object)) :
                e.kind = "ButtonDown" =>
                    /\ cursor_position' # NoPos
                    /\ Contains(listeners'[k].bounds, cursor_position')

(* The step is a raw press of slot i observed while the cursor is at a     *)
(* known position outside the bounds of the listener in slot k             *)
PressOutside(k, i) ==
    /\ SameListener(k)
    /\ RawPress(i)
    /\ cursor_position' # NoPos
    /\ ~Contains(listeners'[k].bounds, cursor_position')

(* C2 as stated: a ButtonDown is dispatched to a listener only in a scan   *)
(* with the cursor inside its bounds, and a raw press observed while the   *)
(* cursor is outside the bounds dispatches nothing to that listener and    *)
(* does not set its per-button flag                                        *)
C2_PressOutsideSilent ==
    [][ /\ DownOnlyInside
        /\ \A k \in 1 .. Len(listeners), i \in ButtonSlots :
               PressOutside(k, i) =>
                   /\ DeliveredTo(events', listeners[k].object) = <<>>
                   /\ ~listeners'[k].button_states[i]
      ]_vars

(* C2, amended: a ButtonDown is dispatched to a listener only in a scan    *)
(* with the cursor inside its bounds; a raw press observed while the       *)
(* cursor is outside the bounds dispatches no ButtonDown and no ButtonUp   *)
(* to that listener (at most the HoveringFinish of a listener whose bounds *)
(* were moved away from the cursor since the last scan) and does not set   *)
(* its per-button flag                                                     *)
C2_PressOutsideNoButtonDown ==
    [][ /\ DownOnlyInside
        /\ \A k \in 1 .. Len(listeners), i \in ButtonSlots :
               PressOutside(k, i) =>
                   /\ DeliveredTo(events', listeners[k].object) = <<>>
                      \/ HoverKindsTo(events', listeners[k].object)
                             = <<"HoveringFinish">>
                   /\ \A e \in Range(DeliveredTo(events', listeners[k].object)) :
                          e.kind \notin ButtonKinds
                   /\ ~listeners'[k].button_states[i]
      ]_vars

(* A button is held, pressed while the cursor was outside a listener that  *)
(* has not recorded it, and another listener got the ButtonDown            *)
C2_Witness ==
    /\ cursor_position # NoPos
    /\ \E k \in 1 .. Len(listeners), i \in ButtonSlots :
           /\ IsLive(listeners[k])
           /\ button_states[i]
           /\ press_where[listeners[k].object][i] = "outside"
           /\ ~Contains(listeners[k].bounds, cursor_position)
           /\ ~listeners[k].button_states[i]
           /\ \E e \in Range(events) :
                  e.kind = "ButtonDown" /\ e.target # listeners[k].object

(* C3: started_inside of a ButtonDown is true exactly when the cursor was  *)
(* inside the listener's bounds when the raw press was processed, and      *)
(* false when the press came with the cursor outside the bounds or unknown *)
C3_StartedInsideIsPressInside ==
    \A e \in Range(events) :
        (e.kind = "ButtonDown" /\ press_where[e.target][e.slot] # "none") =>
            (e.flag <=> press_where[e.target][e.slot] = "inside")

(* C3, the part of it about a press with the cursor outside or unknown:    *)
(* such a press never gives a ButtonDown with started_inside = true        *)
C3_NotInsideNotStartedInside ==
    \A e \in Range(events) :
        (e.kind = "ButtonDown"
            /\ press_where[e.target][e.slot] \in {"outside", "unknown"}) =>
            ~e.flag

(* The ButtonUp notifications of `evs` delivered to target t for slot i *)
UpsTo(evs, t, i) ==
    SelectSeq(evs, LAMBDA e : e.target = t /\ e.kind = "ButtonUp" /\ e.slot = i)

(* C4: a listener that has a button recorded as pressed and observes the   *)
(* release receives exactly one ButtonUp for it, whose inside flag equals  *)
(* whether the cursor is inside the listener's bounds in that scan; for    *)
(* the left button the notification is ButtonUp{Left, inside}              *)
C4_ButtonUpInside ==
    [][ \A k \in 1 .. Len(listeners), i \in ButtonSlots :
            (SameListener(k) /\ listeners[k].button_states[i]) =>
                LET ups == UpsTo(events', listeners[k].object, i)
                    observed == /\ ~button_states'[i]
                                /\ cursor_position' # NoPos
                                /\ \/ button_states' # button_states
                                   \/ cursor_position' # cursor_position
                IN /\ observed => Len(ups) = 1
                   /\ ~listeners'[k].button_states[i] => Len(ups) = 1
                   /\ Len(ups) <= 1
                   /\ Len(ups) = 1 =>
                          /\ cursor_position' # NoPos
                          /\ ups[1].flag = Contains(listeners'[k].bounds,
                                                    cursor_position')
                          /\ ~listeners'[k].button_states[i]
                          /\ i = 0 => ups[1].button = "Left"
      ]_vars

(* The left button, pressed inside a listener, was released after the      *)
(* cursor moved out of its bounds: ButtonUp{Left, inside = false}          *)
C4_Witness ==
    /\ cursor_position # NoPos
    /\ \E k \in 1 .. Len(listeners) :
           /\ IsLive(listeners[k])
           /\ ~Contains(listeners[k].bounds, cursor_position)
           /\ \E e \in Range(UpsTo(events, listeners[k].object, 0)) :
                  /\ e.button = "Left"
                  /\ ~e.flag
                  /\ e.previous_state = "PressedOutside"

(* C5: the ButtonDown or ButtonUp that a MouseInput(b, ...) produces for   *)
(* the raw state it changed carries button = b                             *)
C5_ButtonCarried ==
    [][ \A i \in ButtonSlots :
            button_states'[i] # button_states[i] =>
                \A e \in Range(events') :
                    (e.kind \in ButtonKinds /\ e.slot = i) =>
                        ButtonIndex(e.button) = i
      ]_vars

(* C6: an event counts as a trigger only if it is ButtonUp{Left, inside =  *)
(* true} delivered while the button was Pressed, and a left press made     *)
(* while the cursor was not inside the button's bounds (at a position      *)
(* outside them, or outside the window), dragged into the bounds and       *)
(* released there, produces no trigger                                     *)
C6_NoTriggerFromOutsidePress ==
    [][ \A e \in Range(events') :
            IsButtonTrigger(e) =>
                /\ e.kind = "ButtonUp" /\ e.button = "Left" /\ e.flag
                /\ e.previous_state = "Pressed"
                /\ dispatch_state'[e.target] = "Hovered"
                /\ press_where[e.target][0] \notin {"outside", "unknown"}
      ]_vars

(* C6 for a press made at a known cursor position outside the bounds: this *)
(* part of it holds                                                        *)
C6_NoTriggerFromKnownOutsidePress ==
    [][ \A e \in Range(events') :
            IsButtonTrigger(e) =>
                /\ e.kind = "ButtonUp" /\ e.button = "Left" /\ e.flag
                /\ e.previous_state = "Pressed"
                /\ dispatch_state'[e.target] = "Hovered"
                /\ press_where[e.target][0] # "outside"
      ]_vars

(* The left button was pressed outside a button, dragged into its bounds   *)
(* and released there: the ButtonUp{Left, inside = true} found the button  *)
(* Hovered, not Pressed, and is no trigger                                 *)
C6_Witness ==
    \E e \in Range(events) :
        /\ e.kind = "ButtonUp"
        /\ e.button = "Left"
        /\ e.flag
        /\ e.previous_state = "Hovered"
        /\ ~IsButtonTrigger(e)

(* C9: once a handle has been dropped while the router is alive, its       *)
(* listener's slot is empty and no window event dispatches a notification  *)
(* to that listener's target                                               *)
C9_DroppedListenerSilent ==
    \A h \in 1 .. Len(handles) :
        (handles[h].dropped /\ router_alive) =>
            /\ handles[h].index <= Len(listeners)
            /\ ~IsLive(listeners[handles[h].index])
            /\ \A k \in 1 .. Len(listeners) :
                   IsLive(listeners[k]) => listeners[k].object # handles[h].object
            /\ DeliveredTo(events, handles[h].object) = <<>>

(* After a listener under the cursor was dropped, a press is dispatched to *)
(* the listener that remains, and to it alone                              *)
C9_Witness ==
    /\ router_alive
    /\ cursor_position # NoPos
    /\ \E d, h \in 1 .. Len(handles) :
           /\ handles[d].dropped
           /\ handles[h].live > 0
           /\ DeliveredTo(events, handles[h].object) # <<>>
           /\ \E e \in Range(events) : e.kind = "ButtonDown"

(* The step drops handle h *)
Drops(h) ==
    /\ h <= Len(handles')
    /\ handles'[h].live < handles[h].live

(* Every handle that exists and has no dropped copy designates the slot of *)
(* its own listener                                                        *)
HandlesDesignate(hs, ls) ==
    \A h \in 1 .. Len(hs) :
        (hs[h].live > 0 /\ ~hs[h].dropped) =>
            /\ hs[h].index <= Len(ls)
            /\ IsLive(ls[hs[h].index])
            /\ ls[hs[h].index].object = hs[h].object

(* C10: unregistering a listener leaves every other listener as it was:    *)
(* the table keeps its length, the other slots, the cursor, the raw button *)
(* states and the other targets are unchanged, every surviving handle      *)
(* still designates its own listener, an emptied slot is never filled      *)
(* again, a registration takes a new slot at the end, and update_bounds    *)
(* and notifications reach the listener the handle was made for            *)
C10_OthersUndisturbed ==
    [][ router_alive' =>
          /\ Len(listeners') >= Len(listeners)
          /\ \A k \in 1 .. Len(listeners) :
                 ~IsLive(listeners[k]) => ~IsLive(listeners'[k])
          /\ HandlesDesignate(handles', listeners')
          /\ \A h \in 1 .. Len(handles) :
                 Drops(h) =>
                     /\ Len(listeners') = Len(listeners)
                     /\ \A k \in 1 .. Len(listeners) :
                            k # handles[h].index => listeners'[k] = listeners[k]
                     /\ \A t \in DOMAIN dispatch_state :
                            t # handles[h].object =>
                                dispatch_state'[t] = dispatch_state[t]
                     /\ cursor_position' = cursor_position
                     /\ button_states' = button_states
                     /\ events' = <<>>
          /\ Len(handles') > Len(handles) =>
                 /\ Len(listeners') = Len(listeners) + 1
                 /\ \A k \in 1 .. Len(listeners) : listeners'[k] = listeners[k]
                 /\ handles'[Len(handles')].index = Len(listeners')
          /\ \A k \in 1 .. Len(listeners) :
                 (SameListener(k) /\ listeners'[k].bounds # listeners[k].bounds) =>
                     \E h \in 1 .. Len(handles) :
                         /\ handles[h].live > 0
                         /\ handles[h].index = k
                         /\ handles[h].object = listeners[k].object
          /\ \A e \in Range(events') :
                 \E k \in 1 .. Len(listeners') :
                     IsLive(listeners'[k]) /\ listeners'[k].object = e.target
      ]_vars

(* The first of two listeners was dropped; the second, registered after    *)
(* it, still sits in the second slot, had its bounds updated and has just  *)
(* been notified                                                           *)
C10_Witness ==
    /\ router_alive
    /\ Len(handles) = 2
    /\ Len(listeners) = 2
    /\ handles[1].dropped
    /\ handles[2].live > 0
    /\ ~IsLive(listeners[1])
    /\ IsLive(listeners[2])
    /\ listeners[2].object = handles[2].object
    /\ DeliveredTo(events, handles[2].object) # <<>>

Hover(kind) ==
    [kind |-> kind, button |-> NoButton, flag |-> FALSE]

Down(button, started_inside) ==
    [kind |-> "ButtonDown", button |-> button, flag |-> started_inside]

Up(button, inside) ==
    [kind |-> "ButtonUp", button |-> button, flag |-> inside]

(* A click: enter, press, release inside *)
ClickPath ==
    <<Hover("HoveringStart"), Down("Left", TRUE), Up("Left", TRUE)>>

(* A cancelled click: enter, press, leave, release outside *)
CancelPath ==
    <<Hover("HoveringStart"), Down("Left", TRUE), Hover("HoveringFinish"),
      Up("Left", FALSE)>>

(* C7: from Idle, HoveringStart, ButtonDown(left), ButtonUp(left, inside)  *)
(* drives the button Idle, Hovered, Pressed, Hovered with a trigger at the *)
(* last event only; HoveringStart, ButtonDown(left), HoveringFinish,       *)
(* ButtonUp(left, not inside) drives it Idle, Hovered, Pressed,            *)
(* PressedOutside, Idle with no trigger at any event                       *)
C7_ClickAndCancelPaths ==
    /\ bt_events = ClickPath =>
           /\ bt_path = <<"Idle", "Hovered", "Pressed", "Hovered">>
           /\ bt_legacy = bt_path
           /\ bt_trigger = <<FALSE, FALSE, TRUE>>
    /\ bt_events = CancelPath =>
           /\ bt_path = <<"Idle", "Hovered", "Pressed", "PressedOutside", "Idle">>
           /\ bt_legacy = bt_path
           /\ bt_trigger = <<FALSE, FALSE, FALSE, FALSE>>

(* The cancelled click has been fed: the button went through              *)
(* PressedOutside and is Idle again                                        *)
C7_Witness ==
    /\ bt_events = CancelPath
    /\ bt_state = "Idle"
    /\ bt_path[4] = "PressedOutside"

(* The transition table as the specification gives it: seven rows, every   *)
(* other combination unchanged                                             *)
TransitionTable(old_state, ev) ==
    CASE old_state = "Idle" /\ ev.kind = "HoveringStart" -> "Hovered"
      [] old_state = "Hovered" /\ ev.kind = "HoveringFinish" -> "Idle"
      [] old_state = "Hovered" /\ ev.kind = "ButtonDown"
            /\ ev.button = "Left" -> "Pressed"
      [] old_state = "Pressed" /\ ev.kind = "HoveringFinish" -> "PressedOutside"
      [] old_state = "PressedOutside" /\ ev.kind = "HoveringStart" -> "Pressed"
      [] old_state = "Pressed" /\ ev.kind = "ButtonUp"
            /\ ev.button = "Left" /\ ev.flag -> "Hovered"
      [] old_state \in {"Pressed", "PressedOutside"} /\ ev.kind = "ButtonUp"
            /\ ev.button = "Left" /\ ~ev.flag -> "Idle"
      [] OTHER -> old_state

(* The table with the left-button rows as the dispatch has them: a         *)
(* ButtonDown(left) that started inside presses from every state and one   *)
(* that did not changes nothing, a ButtonUp(left) ends in Hovered or Idle  *)
(* from every state                                                        *)
TransitionTableAnyState(old_state, ev, down_needs_started_inside) ==
    IF ev.button = "Left"
    THEN IF ev.kind = "ButtonUp"
         THEN IF ev.flag THEN "Hovered" ELSE "Idle"
         ELSE IF down_needs_started_inside /\ ~ev.flag
              THEN old_state
              ELSE "Pressed"
    ELSE IF ev.kind = "HoveringStart"
         THEN IF old_state = "Idle" THEN "Hovered"
              ELSE IF old_state = "PressedOutside" THEN "Pressed"
              ELSE old_state
         ELSE IF ev.kind = "HoveringFinish"
              THEN IF old_state = "Hovered" THEN "Idle"
                   ELSE IF old_state = "Pressed" THEN "PressedOutside"
                   ELSE old_state
              ELSE old_state

LastFed ==
    bt_events[Len(bt_events)]

(* C8 as stated: whatever the state and the event, the next state is the   *)
(* one of the specification's table, every combination outside its seven   *)
(* rows leaving the state unchanged                                        *)
C8_TransitionTable ==
    bt_events # <<>> =>
        /\ bt_state = TransitionTable(bt_path[Len(bt_events)], LastFed)
        /\ bt_legacy[Len(bt_legacy)] =
               TransitionTable(bt_legacy[Len(bt_events)], LastFed)

(* C8 amended: the hover rows are those of the table and leave every other *)
(* state unchanged; ButtonDown(left) with started_inside leads to Pressed  *)
(* from every state and without it changes nothing (in src/button.rs,      *)
(* where it carries no started_inside, it always leads to Pressed);        *)
(* ButtonUp(left, inside) leads to Hovered and ButtonUp(left, not inside)  *)
(* to Idle from every state; events of the other buttons change nothing    *)
C8_TransitionTableAnyState ==
    bt_events # <<>> =>
        /\ bt_state = TransitionTableAnyState(bt_path[Len(bt_events)], LastFed, TRUE)
        /\ bt_legacy[Len(bt_legacy)] =
               TransitionTableAnyState(bt_legacy[Len(bt_events)], LastFed, FALSE)
        /\ LastFed.button \notin {"Left", NoButton} =>
               /\ bt_state = bt_path[Len(bt_events)]
               /\ bt_legacy[Len(bt_legacy)] = bt_legacy[Len(bt_events)]

(* A release inside has taken an Idle button to Hovered, after a press     *)
(* that did not start inside left it Hovered, and a press of another       *)
(* button changed nothing                                                  *)
C8_Witness ==
    /\ Len(bt_events) = 4
    /\ bt_events[1] = Up("Left", TRUE)
    /\ bt_path[1] = "Idle" /\ bt_path[2] = "Hovered"
    /\ bt_events[2] = Down("Left", FALSE)
    /\ bt_path[3] = "Hovered"
    /\ bt_legacy[3] = "Pressed"
    /\ bt_events[3] = Down("Right", TRUE)
    /\ bt_path[4] = "Hovered"
    /\ bt_events[4] = Up("Left", FALSE)
    /\ bt_state = "Idle"

(* C11: once the router has been torn down, update_bounds on a surviving   *)
(* handle and the drop of a handle are silent no-ops: no panic, nothing    *)
(* dispatched, and nothing changes but the handle that was dropped         *)
C11_TeardownNoOps ==
    [][ ~router_alive =>
          /\ ~panicked'
          /\ ~router_alive'
          /\ events' = <<>>
          /\ should_redraw' = FALSE
          /\ UNCHANGED <<cursor_position, scale_factor, listeners,
                         bounds_changed, button_states, dispatch_state,
                         next_object>>
          /\ Len(handles') = Len(handles)
          /\ \A h \in 1 .. Len(handles) :
                 /\ handles'[h].index = handles[h].index
                 /\ handles'[h].object = handles[h].object
                 /\ handles'[h].live <= handles[h].live
      ]_vars

(* The router is gone and a handle was dropped after it: its target still  *)
(* shows the state it was left in, which a drop on a live router resets    *)
C11_Witness ==
    /\ ~router_alive
    /\ ~panicked
    /\ \E h \in 1 .. Len(handles) :
           /\ handles[h].dropped
           /\ handles[h].live = 0
           /\ dispatch_state[handles[h].object] = "Pressed"

(* C12: on a live router, whatever the registrations, clones, drops and    *)
(* update_bounds calls, an update_bounds call through a handle that exists *)
(* never panics                                                            *)
C12_UpdateBoundsNeverPanics ==
    router_alive => ~panicked

(* C13: a RedrawRequested that finds bounds_changed clear dispatches       *)
(* nothing, returns false and changes nothing; one that finds it set       *)
(* clears it and scans, so that with the cursor at a known position a      *)
(* listener whose bounds now contain the cursor and that is not recorded   *)
(* as hovered receives exactly one HoveringStart, one whose bounds no      *)
(* longer contain it and that is recorded as hovered exactly one           *)
(* HoveringFinish, and afterwards every listener's hovered flag agrees     *)
(* with its bounds                                                         *)
C13_RedrawRescansIfBoundsChanged ==
    [][ RedrawRequested =>
          /\ ~bounds_changed'
          /\ rescanned' = bounds_changed
          /\ ~bounds_changed =>
                 /\ events' = <<>>
                 /\ ~should_redraw'
                 /\ UNCHANGED <<listeners, dispatch_state, cursor_position,
                                button_states, scale_factor, handles>>
          /\ (bounds_changed /\ cursor_position # NoPos) =>
                 \A k \in 1 .. Len(listeners) :
                     IsLive(listeners[k]) =>
                         LET now == Contains(listeners[k].bounds, cursor_position)
                             hovered == listeners[k].is_hovered
                             hs == HoverKindsTo(events', listeners[k].object)
                         IN /\ (now /\ ~hovered) => hs = <<"HoveringStart">>
                            /\ (~now /\ hovered) => hs = <<"HoveringFinish">>
                            /\ (now = hovered) => hs = <<>>
                            /\ listeners'[k].is_hovered = now
                            /\ listeners'[k].bounds = listeners[k].bounds
      ]_vars

(* A RedrawRequested has just scanned and delivered HoveringStart to a     *)
(* listener whose bounds were moved under the cursor                       *)
C13_Witness ==
    /\ rescanned
    /\ ~bounds_changed
    /\ cursor_position # NoPos
    /\ \E k \in 1 .. Len(listeners) :
           /\ IsLive(listeners[k])
           /\ Contains(listeners[k].bounds, cursor_position)
           /\ HoverKindsTo(events, listeners[k].object) = <<"HoveringStart">>
           /\ should_redraw

(* C14: while the cursor position is unknown, a step dispatches no         *)
(* notification, returns false and leaves the hovered flag, the per-button *)
(* flags and the target's state of every listener unchanged; CursorLeft    *)
(* only clears the stored cursor position and delivers no HoveringFinish   *)
C14_CursorUnknownSilent ==
    [][ /\ (router_alive' /\ cursor_position' = NoPos) =>
               /\ events' = <<>>
               /\ ~should_redraw'
               /\ \A k \in 1 .. Len(listeners) :
                      SameListener(k) =>
                          /\ listeners'[k].is_hovered = listeners[k].is_hovered
                          /\ listeners'[k].button_states =
                                 listeners[k].button_states
                          /\ dispatch_state'[listeners[k].object] =
                                 dispatch_state[listeners[k].object]
        /\ CursorLeft =>
               /\ cursor_position' = NoPos
               /\ events' = <<>>
               /\ ~should_redraw'
               /\ UNCHANGED <<listeners, dispatch_state, button_states,
                              scale_factor, bounds_changed, handles>>
      ]_vars

(* The cursor left while a listener was hovered and a button was pressed   *)
(* afterwards: the listener is still recorded as hovered, its target is    *)
(* still Hovered, and it has not seen the press                            *)
C14_Witness ==
    /\ router_alive
    /\ cursor_position = NoPos
    /\ events = <<>>
    /\ button_states[0]
    /\ \E k \in 1 .. Len(listeners) :
           /\ IsLive(listeners[k])
           /\ listeners[k].is_hovered
           /\ ~listeners[k].button_states[0]
           /\ dispatch_state[listeners[k].object] = "Hovered"
           /\ last_hover[listeners[k].object] = "HoveringStart"

(* A window event the router ignores *)
IgnoredEvent ==
    \/ OtherEvent
    \/ \E pressed \in BOOLEAN : MouseInput("Other", pressed)

(* C15: window_event returns true exactly when the call dispatched at      *)
(* least one notification, and an event the router ignores (any other      *)
(* WindowEvent, a MouseInput of MouseButton::Other) returns false and      *)
(* changes no router or listener state                                     *)
C15_RedrawIffDispatched ==
    [][ /\ should_redraw' <=> events' # <<>>
        /\ IgnoredEvent =>
               /\ ~should_redraw'
               /\ events' = <<>>
               /\ UNCHANGED <<cursor_position, scale_factor, listeners,
                              bounds_changed, button_states, router_alive,
                              panicked, handles, dispatch_state>>
      ]_vars

(* A call returned true after notifying the first of two listeners and    *)
(* not the second, which the scan visited last                            *)
C15_Witness ==
    /\ should_redraw
    /\ Len(listeners) = 2
    /\ IsLive(listeners[1])
    /\ IsLive(listeners[2])
    /\ DeliveredTo(events, listeners[1].object) # <<>>
    /\ DeliveredTo(events, listeners[2].object) = <<>>

(* The thread is inside the scan loop of scan_events *)
InScanLoop(t) ==
    thread_pc[t] \in {"scan.loop", "callback", "callback.lock"}

(* C16: scan_events holds the listener table's lock for the whole scan,    *)
(* the dispatch callbacks included, so a callback that calls               *)
(* register_listener, update_bounds or drops a handle of the same router   *)
(* stops at the lock and never proceeds, and from then on no thread takes  *)
(* the listener table's lock                                               *)
C16_CallbackReentryDeadlocks ==
    [][ \A t \in Threads :
          /\ InScanLoop(t) =>
                 /\ lock_owner["listeners"] = t
                 /\ lock_owner["button_states"] = t
          /\ (thread_pc[t] = "callback" /\ callback_op[t] \in ListenerOps) =>
                 thread_pc'[t] \in {"callback", "callback.lock"}
          /\ thread_pc[t] = "callback.lock" =>
                 /\ thread_pc'[t] = "callback.lock"
                 /\ lock_owner'["listeners"] = t
      ]_vars

(* A callback that calls register_listener is stopped at the listener      *)
(* table's lock, which its own thread holds, and another thread that       *)
(* wants to update bounds waits for that lock                              *)
C16_Witness ==
    \E t, u \in Threads :
        /\ thread_pc[t] = "callback.lock"
        /\ callback_op[t] = "register_listener"
        /\ lock_owner["listeners"] = t
        /\ thread_pc[u] = "op.lock"
        /\ thread_op[u] = "update_bounds"

(* C17: in a frame, every apply_bounds a view receives from prepare_view   *)
(* or prepare_view_bounded comes after a preferred_size of that frame, and *)
(* every prepare_for_drawing after an apply_bounds                         *)
C17_MeasureBeforeApplyBounds ==
    \A i \in 1 .. Len(view_calls) :
        /\ view_calls[i] = "apply_bounds" =>
               \E j \in 1 .. i - 1 : view_calls[j] = "preferred_size"
        /\ view_calls[i] = "prepare_for_drawing" =>
               \E j \in 1 .. i - 1 : view_calls[j] = "apply_bounds"

(* C18: a draw of a view that was not prepared never crashes: the view     *)
(* logs a warning and draws nothing, whichever leaf view it is             *)
C18_DrawUnpreparedWarns ==
    draw_outcome \in {"none", "drawn", "warned"}

----------------------------------------------------------------------------
(* Stack layout *)

(* The sum of a sequence of lengths, from its head *)
RECURSIVE Total(_)
Total(lengths) ==
    IF lengths = <<>>
    THEN F(0)
    ELSE FAdd(Head(lengths), Total(Tail(lengths)))

(* The largest of a sequence of non-negative lengths, 0 if there is none *)
Largest(lengths) ==
    IF lengths = <<>>
    THEN F(0)
    ELSE CHOOSE m \in {lengths[i] : i \in DOMAIN lengths} :
             \A i \in DOMAIN lengths : FLe(lengths[i], m)

AlphaLengths ==
    [i \in DOMAIN subviews |-> Alpha(axis, subviews[i])]

BetaLengths ==
    [i \in DOMAIN subviews |-> Beta(axis, subviews[i])]

(* The number of gaps as the specification states it *)
Gaps ==
    IF padding_type = "Interpadded"
    THEN IF Len(subviews) - 1 > 0 THEN Len(subviews) - 1 ELSE 0
    ELSE Len(subviews) + 1

(* C19: for every subview count n >= 0 a stack has max(n - 1, 0) gaps if   *)
(* Interpadded and n + 1 if Omnipadded; preferred_size returns, on the     *)
(* layout axis, the sum of the subviews' alpha lengths plus gaps times the *)
(* fixed padding (0 if none is configured) and, on the cross axis, the     *)
(* largest subview beta length.                                            *)
C19_GapsAndPreferredSize ==
    [][StackPreferredSize =>
           /\ NPaddings(Len(subviews), padding_type) = Gaps
           /\ Alpha(axis, stack_size') =
                  FAdd(Total(AlphaLengths),
                       FMul(F(Gaps),
                            IF fixed_padding = NoPadding
                            THEN F(0)
                            ELSE fixed_padding))
           /\ Beta(axis, stack_size') = Largest(BetaLengths)]_vars

(* C19 witness: an empty Interpadded stack with a fixed padding of 10 was  *)
(* measured: it has no gap and prefers the length 0.                       *)
C19_Witness ==
    /\ stack_size = <<F(0), F(0)>>
    /\ fixed_padding = F(10)
    /\ subviews = <<>>
    /\ padding_type = "Interpadded"

(* An Omnipadded vertical stack of three subviews of different beta        *)
(* lengths was measured: four gaps of 10                                   *)
C19_WitnessOmnipadded ==
    /\ stack_size # NoSize
    /\ fixed_padding = F(10)
    /\ Len(subviews) = 3
    /\ padding_type = "Omnipadded"
    /\ axis = "Vertical"
    /\ Cardinality({BetaLengths[i] : i \in DOMAIN subviews}) > 1
    /\ Alpha(axis, stack_size) = FAdd(Total(AlphaLengths), F(40))
    /\ Beta(axis, stack_size) = Largest(BetaLengths)

(* The stack of the example: horizontal, Interpadded, fixed padding 10,    *)
(* three subviews preferring 50 x 20, 80 x 20 and 30 x 20, measured, and   *)
(* just given the bounds 500 x 20 at the origin                            *)
ExampleApplied ==
    /\ stack_kind \in {"Stack", "StackView"}
    /\ axis = "Horizontal"
    /\ padding_type = "Interpadded"
    /\ fixed_padding = F(10)
    /\ subviews = <<<<F(50), F(20)>>, <<F(80), F(20)>>, <<F(30), F(20)>>>>
    /\ subview_sizes = subviews
    /\ stack_bounds = BoundsNew(<<F(0), F(0)>>, <<F(500), F(20)>>)

(* The three subviews at their preferred sizes, the first at x = leading,  *)
(* gaps of 10 between them, all at y = 0                                   *)
ExamplePlaced(leading) ==
    <<BoundsNew(<<F(leading), F(0)>>, <<F(50), F(20)>>),
      BoundsNew(<<F(leading + 60), F(0)>>, <<F(80), F(20)>>),
      BoundsNew(<<F(leading + 150), F(0)>>, <<F(30), F(20)>>)>>

(* The width from the first subview's min edge to the last one's max edge *)
OccupiedWidth ==
    FSub(FAdd(subview_bounds[3].origin[1], subview_bounds[3].size[1]),
         subview_bounds[1].origin[1])

(* C20 as stated: with no alignment configured, the subviews of the        *)
(* example get the x-origins 0, 60 and 150, their preferred widths (180    *)
(* in all) and the cross-axis offset 0.                                    *)
C20_ExampleOrigins ==
    (ExampleApplied /\ alignment_alpha = Center /\ alignment_beta = Center)
        => /\ subview_bounds = ExamplePlaced(0)
           /\ OccupiedWidth = F(180)

(* C20 amended: the subviews of the example get their preferred sizes,     *)
(* gaps of 10 (180 in all) and the cross-axis offset 0 under every         *)
(* alignment; the first x-origin is the alignment ratio times the slack    *)
(* of 320.  A Stack, whose alpha alignment is Center unless configured,    *)
(* places them at 160, 220 and 310; they are at 0, 60 and 150 in a Stack   *)
(* aligned Leading and in a StackView, which has no alignment.             *)
C20_ExampleOriginsByAlignment ==
    ExampleApplied
        => /\ Len(subview_bounds) = 3
           /\ OccupiedWidth = F(180)
           /\ subview_bounds =
                  ExamplePlaced(
                      CASE stack_kind = "StackView" -> 0
                        [] alignment_alpha = Leading -> 0
                        [] alignment_alpha = Ratio(<<1, 5>>) -> 64
                        [] alignment_alpha = Center -> 160
                        [] alignment_alpha = Trailing -> 320)

(* C20 witness: a Stack with no alignment configured laid the example out  *)
(* from x = 160.                                                           *)
C20_Witness ==
    /\ ExampleApplied
    /\ stack_kind = "Stack"
    /\ alignment_alpha = Center
    /\ alignment_beta = Center
    /\ subview_bounds = ExamplePlaced(160)

(* A StackView laid the example out from x = 0 *)
C20_WitnessStackView ==
    /\ ExampleApplied
    /\ stack_kind = "StackView"
    /\ subview_bounds = ExamplePlaced(0)

(* The last operation was an apply_bounds of a Stack *)
StackLaidOut ==
    stack_kind = "Stack" /\ stack_bounds # NoBounds

(* The alpha length of the bounds the stack was given *)
BoundsAlpha ==
    Alpha(axis, stack_bounds.size)

(* The fixed padding, 0 if none is configured *)
FixedPaddingOrZero ==
    IF fixed_padding = NoPadding THEN F(0) ELSE fixed_padding

(* The minimum alpha length as the specification states it *)
MinAlpha ==
    FAdd(Total(AlphaLengths), FMul(F(Gaps), FixedPaddingOrZero))

(* The alpha length subview i was placed with *)
PlacedAlpha(i) ==
    Alpha(axis, subview_bounds[i].size)

(* Where subview i starts and ends, from the leading edge of the bounds *)
PlacedStart(i) ==
    FSub(Alpha(axis, subview_bounds[i].origin), Alpha(axis, stack_bounds.origin))

PlacedEnd(i) ==
    FAdd(PlacedStart(i), PlacedAlpha(i))

(* The space left free before subview i *)
GapBefore(i) ==
    IF i = 1 THEN PlacedStart(1) ELSE FSub(PlacedStart(i), PlacedEnd(i - 1))

(* The bounds are too short for the stack and its fixed paddings *)
TooShort ==
    /\ StackLaidOut
    /\ fixed_padding # NoPadding
    /\ FLt(BoundsAlpha, MinAlpha)

(* C21: when a Stack with a fixed padding is given bounds shorter on the   *)
(* layout axis than its minimum alpha length, every subview's placed alpha *)
(* length and every gap is its preferred value times bounds.alpha /        *)
(* minAlpha, and the placed lengths and gaps together do not exceed        *)
(* bounds.alpha.                                                           *)
C21_ShrinkAlpha ==
    TooShort =>
        LET shrinkAlpha == FDiv(BoundsAlpha, MinAlpha)
            gap == FMul(shrinkAlpha, fixed_padding)
            n == Len(subviews)
        IN  /\ Len(subview_bounds) = n
            /\ \A i \in 1..n :
                   /\ PlacedAlpha(i) =
                          FMul(shrinkAlpha, Alpha(axis, subviews[i]))
                   /\ GapBefore(i) =
                          IF i = 1 /\ padding_type = "Interpadded"
                          THEN F(0)
                          ELSE gap
            /\ n > 0 =>
                   FLe(FAdd(PlacedEnd(n),
                            IF padding_type = "Omnipadded" THEN gap ELSE F(0)),
                       BoundsAlpha)

(* C21 witness: widths 50, 80 and 30 with padding 10 were laid out in a    *)
(* width of 100: the factor is 100/180 and the first width 250/9.          *)
C21_Witness ==
    /\ TooShort
    /\ axis = "Horizontal"
    /\ padding_type = "Interpadded"
    /\ subviews = <<<<F(50), F(20)>>, <<F(80), F(20)>>, <<F(30), F(20)>>>>
    /\ BoundsAlpha = F(100)
    /\ PlacedAlpha(1) = <<250, 9>>
    /\ PlacedEnd(3) = F(100)

(* The alignment ratio as the specification states it *)
RatioOf(alignment) ==
    CASE alignment = Center -> <<1, 2>>
      [] alignment = Leading -> F(0)
      [] alignment = Trailing -> F(1)
      [] alignment.kind = "Ratio" -> alignment.ratio

(* The bounds are longer than the stack and its fixed paddings need *)
HasSlack ==
    /\ StackLaidOut
    /\ fixed_padding # NoPadding
    /\ subviews # <<>>
    /\ FLt(MinAlpha, BoundsAlpha)

Slack ==
    FSub(BoundsAlpha, MinAlpha)

(* C22 as stated: in a Stack with a fixed padding and positive slack the   *)
(* offset before the first child is the alpha alignment ratio times the    *)
(* slack: ratio 0 (Leading) puts the first child flush with the leading    *)
(* edge of the bounds, ratio 1 (Trailing) the last child flush with the    *)
(* trailing edge.                                                          *)
C22_AlignmentOffset ==
    HasSlack =>
        /\ PlacedStart(1) = FMul(RatioOf(alignment_alpha), Slack)
        /\ RatioOf(alignment_alpha) = F(0) => PlacedStart(1) = F(0)
        /\ RatioOf(alignment_alpha) = F(1) =>
               PlacedEnd(Len(subviews)) = BoundsAlpha

(* The gap an Omnipadded stack keeps before its first and after its last   *)
(* child                                                                   *)
EdgeGap ==
    IF padding_type = "Omnipadded" THEN fixed_padding ELSE F(0)

(* C22 amended: in a Stack with a fixed padding and positive slack the     *)
(* children keep their preferred lengths and the fixed gaps, and the       *)
(* block they form, including the edge gaps of an Omnipadded stack,        *)
(* starts ratio * slack after the leading edge.  The first child starts    *)
(* at ratio * slack in an Interpadded stack and one fixed padding later in *)
(* an Omnipadded one; with ratio 1 the last child ends at the trailing     *)
(* edge in an Interpadded stack and one fixed padding before it in an      *)
(* Omnipadded one.                                                         *)
C22_AlignmentOffsetByPaddingType ==
    HasSlack =>
        /\ PlacedStart(1) =
               FAdd(FMul(RatioOf(alignment_alpha), Slack), EdgeGap)
        /\ PlacedEnd(Len(subviews)) =
               FSub(FSub(BoundsAlpha,
                         FMul(FSub(F(1), RatioOf(alignment_alpha)), Slack)),
                    EdgeGap)
        /\ (RatioOf(alignment_alpha) = F(0) /\ padding_type = "Interpadded")
               => PlacedStart(1) = F(0)
        /\ (RatioOf(alignment_alpha) = F(1) /\ padding_type = "Interpadded")
               => PlacedEnd(Len(subviews)) = BoundsAlpha

(* C22 witness: an Omnipadded Stack aligned Leading was given slack; its   *)
(* first child starts one padding after the leading edge.                  *)
C22_Witness ==
    /\ HasSlack
    /\ padding_type = "Omnipadded"
    /\ alignment_alpha = Leading
    /\ PlacedStart(1) = F(10)

(* An Interpadded Stack aligned Trailing was given slack: its last child   *)
(* ends at the trailing edge; one aligned Ratio(1/5) starts a fifth of the *)
(* slack in                                                                *)
C22_WitnessTrailing ==
    /\ HasSlack
    /\ padding_type = "Interpadded"
    /\ alignment_alpha = Trailing
    /\ Len(subviews) = 3
    /\ PlacedEnd(3) = BoundsAlpha

C22_WitnessRatio ==
    /\ HasSlack
    /\ padding_type = "Interpadded"
    /\ alignment_alpha = Ratio(<<1, 5>>)
    /\ PlacedStart(1) = FMul(<<1, 5>>, Slack)
    /\ FLt(F(0), PlacedStart(1))

(* The last operation was an apply_bounds of a measured stack that has no  *)
(* fixed padding, at least one subview and at least one gap                *)
ComputedPadding ==
    /\ stack_bounds # NoBounds
    /\ fixed_padding = NoPadding
    /\ subview_sizes = subviews
    /\ subviews # <<>>
    /\ Gaps > 0

(* bounds.alpha minus the sum of the subviews' alpha lengths *)
SlackOverLengths ==
    FSub(BoundsAlpha, Total(AlphaLengths))

(* The gap before every child is `gap`, but that nothing precedes the     *)
(* first child of an Interpadded stack                                     *)
GapsBefore(gap) ==
    /\ Len(subview_bounds) = Len(subviews)
    /\ \A i \in 1..Len(subviews) :
           GapBefore(i) =
               IF i = 1 /\ padding_type = "Interpadded" THEN F(0) ELSE gap

(* Every gap is `gap`, and children and gaps fill bounds.alpha: the last   *)
(* child, or the gap after it if Omnipadded, ends at the trailing edge     *)
GapsAre(gap) ==
    /\ GapsBefore(gap)
    /\ FAdd(PlacedEnd(Len(subviews)),
            IF padding_type = "Omnipadded" THEN gap ELSE F(0)) = BoundsAlpha

(* C23 as stated: in a stack without fixed padding every gap is            *)
(* (bounds.alpha - sum of the subviews' alpha lengths) / number of gaps,   *)
(* nothing precedes the first child but such a gap, whatever the alpha     *)
(* alignment, and children and gaps fill bounds.alpha.                     *)
C23_ComputedGaps ==
    ComputedPadding => GapsAre(FDiv(SlackOverLengths, F(Gaps)))

(* C23 amended: as stated when bounds.alpha is at least the sum of the     *)
(* subviews' alpha lengths, the children keeping their preferred lengths.  *)
(* When it is less, a Stack scales the children by bounds.alpha / sum and  *)
(* leaves gaps of 0, filling bounds.alpha; a StackView keeps the quotient, *)
(* which is negative, as the gap, so that its children overlap.  The alpha *)
(* alignment has no effect in any case.                                    *)
C23_ComputedGapsClamped ==
    ComputedPadding =>
        IF FLe(F(0), SlackOverLengths)
        THEN /\ GapsAre(FDiv(SlackOverLengths, F(Gaps)))
             /\ \A i \in 1..Len(subviews) :
                    PlacedAlpha(i) = Alpha(axis, subviews[i])
        ELSE IF stack_kind = "Stack"
        THEN /\ GapsAre(F(0))
             /\ \A i \in 1..Len(subviews) :
                    PlacedAlpha(i) =
                        FMul(FDiv(BoundsAlpha, Total(AlphaLengths)),
                             Alpha(axis, subviews[i]))
        ELSE GapsBefore(FDiv(SlackOverLengths, F(Gaps)))

(* C23 witness: a Stack aligned Trailing, without fixed padding, spread    *)
(* three children over a width of 500 with gaps of 170, the first at the   *)
(* leading edge.                                                           *)
C23_Witness ==
    /\ ComputedPadding
    /\ stack_kind = "Stack"
    /\ alignment_alpha = Trailing
    /\ padding_type = "Interpadded"
    /\ subviews = <<<<F(50), F(20)>>, <<F(80), F(20)>>, <<F(30), F(20)>>>>
    /\ axis = "Horizontal"
    /\ BoundsAlpha = F(500)
    /\ PlacedStart(1) = F(0)
    /\ GapBefore(2) = F(170)
    /\ GapBefore(3) = F(170)

(* A Stack without fixed padding was given less than its children need:    *)
(* gaps of 0                                                               *)
C23_WitnessShrunk ==
    /\ ComputedPadding
    /\ stack_kind = "Stack"
    /\ FLt(SlackOverLengths, F(0))
    /\ Len(subviews) = 3
    /\ GapBefore(2) = F(0)

(* A StackView without fixed padding was given less than its children      *)
(* need: negative gaps                                                     *)
C23_WitnessOverlap ==
    /\ ComputedPadding
    /\ stack_kind = "StackView"
    /\ Len(subviews) = 3
    /\ FLt(GapBefore(2), F(0))

----------------------------------------------------------------------------
(* Container layout.  Axis k is 1 for the horizontal and 2 for the         *)
(* vertical axis.                                                          *)

ContainerLaidOut ==
    container_bounds # NoBounds

LeadingPadding(k) ==
    IF k = 1 THEN padding_left ELSE padding_top

TrailingPadding(k) ==
    IF k = 1 THEN padding_right ELSE padding_bottom

SpreadRatio(k) ==
    IF k = 1 THEN spread_ratio_horizontal ELSE spread_ratio_vertical

(* Both edges of axis k are Spread *)
BothSpread(k) ==
    LeadingPadding(k) = Spread /\ TrailingPadding(k) = Spread

(* bounds length - subview length on axis k *)
ContainerSlack(k) ==
    FSub(container_bounds.size[k], RequestedSize[k])

(* The subview fits in the bounds on axis k, with room to spare *)
Roomy(k) ==
    FLt(F(0), ContainerSlack(k))

(* The space before and after the subview on axis k *)
LeadingGap(k) ==
    FSub(container_subview_bounds.origin[k], container_bounds.origin[k])

TrailingGap(k) ==
    FSub(MaxEdge(container_bounds, k), MaxEdge(container_subview_bounds, k))

(* C24: a Container with both edges of an axis Spread, given bounds larger *)
(* than the subview on that axis, places the subview spread_ratio * slack  *)
(* after its leading edge; with ratio 1/2 the subview is centered.         *)
C24_SpreadLeadingGap ==
    \A k \in {1, 2} :
        (ContainerLaidOut /\ BothSpread(k) /\ Roomy(k)) =>
            /\ LeadingGap(k) = FMul(SpreadRatio(k), ContainerSlack(k))
            /\ SpreadRatio(k) = <<1, 2>> => TrailingGap(k) = LeadingGap(k)

(* C24 witness: a subview 40 wide was placed in a width of 100 with        *)
(* ratio 1/5, at x = 12.                                                   *)
C24_Witness ==
    /\ ContainerLaidOut
    /\ BothSpread(1)
    /\ spread_ratio_horizontal = <<1, 5>>
    /\ RequestedSize[1] = F(40)
    /\ container_bounds.size[1] = F(100)
    /\ LeadingGap(1) = F(12)

(* A subview 10 high was centered in a height of 50 *)
C24_WitnessCentered ==
    /\ ContainerLaidOut
    /\ BothSpread(2)
    /\ spread_ratio_vertical = <<1, 2>>
    /\ RequestedSize[2] = F(10)
    /\ container_bounds.size[2] = F(50)
    /\ LeadingGap(2) = F(20)
    /\ TrailingGap(2) = F(20)

(* C25: when both edges of an axis are Spread and the subview fits in the  *)
(* bounds, then for every spread ratio the leading padding is ratio *      *)
(* slack, the trailing one (1 - ratio) * slack, and the subview is given   *)
(* its full requested length.                                              *)
C25_SpreadSplitsSlack ==
    \A k \in {1, 2} :
        (ContainerLaidOut /\ BothSpread(k) /\ FLe(F(0), ContainerSlack(k))) =>
            /\ LeadingGap(k) = FMul(SpreadRatio(k), ContainerSlack(k))
            /\ TrailingGap(k) =
                   FMul(FSub(F(1), SpreadRatio(k)), ContainerSlack(k))
            /\ container_subview_bounds.size[k] = RequestedSize[k]

(* C26: for every padding configuration and every bounds, the rectangle a  *)
(* Container gives its subview lies within the Container's bounds: on      *)
(* each axis its min edge is not before and its max edge not past the      *)
(* container's, and its length is not negative.                            *)
C26_SubviewWithinBounds ==
    ContainerLaidOut =>
        \A k \in {1, 2} :
            /\ FLe(container_bounds.origin[k],
                   container_subview_bounds.origin[k])
            /\ FLe(MaxEdge(container_subview_bounds, k),
                   MaxEdge(container_bounds, k))
            /\ FLe(F(0), container_subview_bounds.size[k])

----------------------------------------------------------------------------
(* C27: the style-needs-refresh flag of a button *)

(* The notifications the last operation dispatched to the ButtonView *)
Delivered ==
    {i \in DOMAIN events' : events'[i].target = ButtonObject}

(* One of them changed the button state *)
StateChanged ==
    \E i \in Delivered : events'[i].previous_state # events'[i].current_state

(* C27: an event dispatched to a button sets its style-needs-refresh flag  *)
(* only if it changes the button state, and otherwise leaves the flag as   *)
(* it was; prepare_for_drawing reapplies the style exactly if the flag is  *)
(* set and clears it, so that a prepare_for_drawing that finds the flag    *)
(* cleared does not reapply the style.                                     *)
C27_RefreshFlagOnChange ==
    [][ /\ (ButtonViewExists /\ Delivered # {}) =>
               state_updated'[ButtonObject] =
                   (state_updated[ButtonObject] \/ StateChanged)
        /\ ButtonViewPrepareForDrawing =>
               /\ styles_updated' = state_updated[ButtonObject]
               /\ ~state_updated'[ButtonObject] ]_vars

----------------------------------------------------------------------------
(* C28: what update_bounds through a handle changes *)

(* The step is a call of update_bounds on handle h *)
UpdateBoundsCalled(h) ==
    \E b \in BoundsChoices : UpdateBounds(h, b)

(* The hover notification a scan at `position` owes the listener *)
HoverOwed(listener, position) ==
    IF Contains(listener.bounds, position) = listener.is_hovered THEN "none"
    ELSE IF listener.is_hovered THEN "HoveringFinish"
    ELSE "HoveringStart"

(* The step scanned the listeners with the cursor position known *)
Scanned ==
    /\ cursor_position' # NoPos
    /\ \/ \E p \in PhysicalPositions : CursorMoved(p)
       \/ \E f \in ScaleFactors : ScaleFactorChanged(f)
       \/ \E b \in InputButtons \ {"Other"}, pressed \in BOOLEAN :
              MouseInput(b, pressed)
       \/ RedrawRequested /\ bounds_changed

(* The hover notifications the step dispatched to a target *)
HoverNotifications(object) ==
    SelectSeq(events', LAMBDA e : /\ e.target = object
                                  /\ e.kind \in {"HoveringStart",
                                                 "HoveringFinish"})

(* C28: update_bounds through a handle of a live router stores the bounds  *)
(* in that handle's listener and sets bounds_changed; it dispatches        *)
(* nothing and leaves the listener's is_hovered and button_states, every   *)
(* other listener, the cursor position, the raw button states and the      *)
(* targets' states as they were (and changes nothing at all once the       *)
(* router is gone).  The hover change the new bounds imply is delivered by *)
(* the next scan: a scan with the cursor known sends each listener exactly *)
(* the hover notification its bounds and recorded flag call for.           *)
C28_UpdateBoundsFrame ==
    [][ /\ \A h \in 1 .. Len(handles), b \in BoundsChoices :
               UpdateBounds(h, b) =>
                   /\ events' = <<>>
                   /\ ~panicked'
                   /\ UNCHANGED <<cursor_position, button_states, scale_factor,
                                  dispatch_state, last_hover, handles>>
                   /\ IF router_alive
                      THEN /\ bounds_changed'
                           /\ Len(listeners') = Len(listeners)
                           /\ \A k \in 1 .. Len(listeners) :
                                  IF k # handles[h].index
                                  THEN listeners'[k] = listeners[k]
                                  ELSE /\ listeners'[k].bounds = b
                                       /\ listeners'[k].is_hovered =
                                              listeners[k].is_hovered
                                       /\ listeners'[k].button_states =
                                              listeners[k].button_states
                                       /\ listeners'[k].object =
                                              listeners[k].object
                      ELSE UNCHANGED <<listeners, bounds_changed>>
        /\ Scanned =>
               \A k \in 1 .. Len(listeners) :
                   IsLive(listeners[k]) =>
                       LET owed == HoverOwed(listeners[k], cursor_position')
                           sent == HoverNotifications(listeners[k].object)
                       IN IF owed = "none" THEN sent = <<>>
                          ELSE Len(sent) = 1 /\ sent[1].kind = owed ]_vars

(* update_bounds moved a hovered listener away from the resting cursor:    *)
(* nothing was dispatched, the flag is set and a HoveringFinish is owed    *)
C28_Witness ==
    /\ router_alive /\ ~panicked
    /\ bounds_changed
    /\ events = <<>>
    /\ cursor_position # NoPos
    /\ \E k \in 1 .. Len(listeners) :
           /\ IsLive(listeners[k])
           /\ listeners[k].is_hovered
           /\ ~Contains(listeners[k].bounds, cursor_position)

----------------------------------------------------------------------------
(* C29: a ButtonView's listener follows the bounds the view was given *)

(* The bounds the router holds for the ButtonView's listener *)
ButtonListenerBounds ==
    listeners[handles[button_view].index].bounds

(* C29: apply_bounds(b) makes b the bounds of the ButtonView, nothing else *)
(* but constructing the view changes them, and a prepare_for_drawing with  *)
(* the router alive leaves the router holding exactly these bounds for the *)
(* view's listener, with bounds_changed set: after apply_bounds(b) and     *)
(* prepare_for_drawing the next scan tests the cursor against b.           *)
C29_ListenerFollowsAppliedBounds ==
    [][ /\ \A b \in BoundsChoices :
               ButtonViewApplyBounds(b) => rect_bounds' = b
        /\ rect_bounds' # rect_bounds =>
               \/ ButtonViewNew
               \/ \E b \in BoundsChoices : ButtonViewApplyBounds(b)
        /\ (ButtonViewPrepareForDrawing /\ router_alive) =>
               /\ ~panicked'
               /\ listeners'[handles[button_view].index].bounds = rect_bounds
               /\ bounds_changed' ]_vars

(* The view was laid out at bounds other than its default ones and then    *)
(* prepared: the router holds them and the flag is set                     *)
C29_Witness ==
    /\ router_alive /\ ~panicked
    /\ ButtonViewExists
    /\ rect_bounds \in BoundsChoices
    /\ ButtonListenerBounds = rect_bounds
    /\ bounds_changed

----------------------------------------------------------------------------
(* C30: ButtonDown and ButtonUp of one listener and button alternate *)

(* The button notifications the step dispatched to a target for a slot *)
ButtonNotifications(object, i) ==
    SelectSeq(events', LAMBDA e : e.target = object /\ e.slot = i)

(* The listener's recorded flag for a slot before the step; a listener the *)
(* step registered had none                                               *)
RecordedBefore(k, i) ==
    /\ k <= Len(listeners)
    /\ IsLive(listeners[k])
    /\ listeners[k].button_states[i]

(* C30: for every listener and every button slot, a step dispatches at     *)
(* most one button notification; it is a ButtonDown exactly when the       *)
(* listener's recorded flag was false (a new listener's is) and sets it,   *)
(* a ButtonUp exactly when the flag was true and clears it, and the flag   *)
(* changes in no other way.  Hence over any event sequence the ButtonDown  *)
(* and ButtonUp of one listener and button alternate, beginning with       *)
(* ButtonDown, and the flag is true exactly between a ButtonDown and the   *)
(* following ButtonUp.                                                     *)
C30_DownUpAlternate ==
    [][ \A k \in 1 .. Len(listeners') :
            IsLive(listeners'[k]) =>
                \A i \in ButtonSlots :
                    LET sent == ButtonNotifications(listeners'[k].object, i)
                        after == listeners'[k].button_states[i]
                    IN /\ Len(sent) <= 1
                       /\ sent = <<>> => after = RecordedBefore(k, i)
                       /\ sent # <<>> =>
                              /\ sent[1].button = ScanButton(i)
                              /\ IF RecordedBefore(k, i)
                                 THEN sent[1].kind = "ButtonUp" /\ ~after
                                 ELSE sent[1].kind = "ButtonDown" /\ after ]_vars

(* A ButtonUp was just delivered to a listener, after the ButtonDown that  *)
(* had set its flag: the flag is cleared again                             *)
C30_Witness ==
    \E k \in 1 .. Len(listeners), j \in 1 .. Len(events) :
        /\ IsLive(listeners[k])
        /\ events[j].target = listeners[k].object
        /\ events[j].kind = "ButtonUp"
        /\ ~listeners[k].button_states[events[j].slot]

----------------------------------------------------------------------------
(* C31: a recorded press and the raw release *)

(* The step is the window_event call of a release of `button` *)
Released(button) ==
    MouseInput(button, FALSE)

(* The step delivered a ButtonUp for slot i to listener k and cleared the  *)
(* listener's recorded flag                                                *)
ReleaseDelivered(k, i) ==
    /\ IsLive(listeners'[k])
    /\ ~listeners'[k].button_states[i]
    /\ \E j \in 1 .. Len(events') :
           /\ events'[j].target = listeners[k].object
           /\ events'[j].slot = i
           /\ events'[j].kind = "ButtonUp"

(* The listeners that have slot i recorded as pressed *)
RecordedPressed(i) ==
    {k \in 1 .. Len(listeners) :
         IsLive(listeners[k]) /\ listeners[k].button_states[i]}

(* C31 as stated: the window_event call of a release delivers ButtonUp to  *)
(* every listener that has the button recorded as pressed and clears its   *)
(* recorded flag.                                                          *)
C31_ReleaseDeliveredInCall ==
    [][ \A button \in InputButtons \ {"Other"} :
            \A k \in RecordedPressed(ButtonIndex(button)) :
                Released(button) =>
                    ReleaseDelivered(k, ButtonIndex(button)) ]_vars

(* A recorded press that has outlived the raw release of its button *)
Outlived ==
    \E k \in 1 .. Len(listeners), i \in ButtonSlots :
        /\ IsLive(listeners[k])
        /\ listeners[k].button_states[i]
        /\ ~button_states[i]

(* C31, amended: the window_event call of a release made while the cursor  *)
(* position is known delivers ButtonUp to every listener that has the      *)
(* button recorded as pressed and clears its recorded flag; made while the *)
(* cursor position is unknown it dispatches nothing and leaves the         *)
(* listeners as they were.  A recorded press outlives the raw release only *)
(* while the cursor position is unknown.                                   *)
C31_ReleaseDeliveredIfCursorKnown ==
    /\ [][ \A button \in InputButtons \ {"Other"} :
               \A k \in RecordedPressed(ButtonIndex(button)) :
                   Released(button) =>
                       IF cursor_position # NoPos
                       THEN ReleaseDelivered(k, ButtonIndex(button))
                       ELSE events' = <<>> /\ listeners' = listeners ]_vars
    /\ [](Outlived => cursor_position = NoPos)

(* A release with the cursor known has just been delivered to a listener   *)
(* that had the press recorded                                             *)
C31_Witness ==
    /\ cursor_position # NoPos
    /\ \E k \in 1 .. Len(listeners), j \in 1 .. Len(events) :
           /\ IsLive(listeners[k])
           /\ events[j].target = listeners[k].object
           /\ events[j].kind = "ButtonUp"
           /\ ~button_states[events[j].slot]
           /\ ~listeners[k].button_states[events[j].slot]

(* The release came while the cursor was away: the press is still recorded *)
C31_WitnessOutlived ==
    /\ Outlived
    /\ cursor_position = NoPos

----------------------------------------------------------------------------
(* C32: the button state and the listener's hovered flag *)

(* The button states shown while the cursor is over the button *)
OverStates ==
    {"Hovered", "Pressed"}

(* The state of every registered button agrees with its listener's hovered *)
(* flag                                                                   *)
StateFollowsHover ==
    \A k \in 1 .. Len(listeners) :
        IsLive(listeners[k]) =>
            (dispatch_state[listeners[k].object] \in OverStates
                 <=> listeners[k].is_hovered)

(* The hover or left-button event has a row in the transition table for    *)
(* the state it is delivered in                                           *)
HasRow(e) ==
    CASE e.kind = "HoveringStart" ->
             e.previous_state \in {"Idle", "PressedOutside"}
      [] e.kind = "HoveringFinish" ->
             e.previous_state \in {"Hovered", "Pressed"}
      [] e.kind = "ButtonDown" /\ e.button = "Left" ->
             e.previous_state = "Hovered"
      [] e.kind = "ButtonUp" /\ e.button = "Left" /\ e.flag ->
             e.previous_state = "Pressed"
      [] e.kind = "ButtonUp" /\ e.button = "Left" /\ ~e.flag ->
             e.previous_state \in {"Pressed", "PressedOutside"}
      [] OTHER -> TRUE

(* Every notification of the last operation had a row *)
OnlyRowsDelivered ==
    \A j \in 1 .. Len(events) : HasRow(events[j])

(* C32 as stated: after every window_event call a button is Hovered or     *)
(* Pressed exactly when its listener's hovered flag is set, Idle or        *)
(* PressedOutside exactly when it is not, and the router delivers a hover  *)
(* or left-button event only in a state for which the transition table has *)
(* a row.                                                                  *)
C32_StateFollowsHoverWithinTable ==
    /\ StateFollowsHover
    /\ OnlyRowsDelivered

(* The states the router delivers a hover or left-button event in: those   *)
(* of the table's rows and, for a release, the states of a button that     *)
(* ignored the press because it had not started inside                     *)
DeliveredIn(e) ==
    CASE e.kind = "HoveringStart" ->
             e.previous_state \in {"Idle", "PressedOutside"}
      [] e.kind = "HoveringFinish" ->
             e.previous_state \in {"Hovered", "Pressed"}
      [] e.kind = "ButtonDown" /\ e.button = "Left" ->
             e.previous_state = "Hovered"
      [] e.kind = "ButtonUp" /\ e.button = "Left" /\ e.flag ->
             e.previous_state \in {"Pressed", "Hovered"}
      [] e.kind = "ButtonUp" /\ e.button = "Left" /\ ~e.flag ->
             e.previous_state \in {"PressedOutside", "Idle"}
      [] OTHER -> TRUE

(* C32, amended: after every window_event call a button is Hovered or      *)
(* Pressed exactly when its listener's hovered flag is set and Idle or     *)
(* PressedOutside exactly when it is not.  Hover events and ButtonDown      *)
(* (left) are delivered only in the states of their rows of the table.      *)
(* ButtonUp(left) is also delivered outside its rows, to a button that      *)
(* ignored a press which had not started inside: with inside = true in     *)
(* Hovered, with inside = false in Idle, besides Pressed and               *)
(* PressedOutside; either way it leaves the state agreeing with the        *)
(* hovered flag.                                                           *)
C32_StateFollowsHover ==
    /\ StateFollowsHover
    /\ \A j \in 1 .. Len(events) : DeliveredIn(events[j])

(* A release inside reached a button that was only hovered, having ignored *)
(* the press: state and hovered flag still agree                           *)
C32_Witness ==
    \E k \in 1 .. Len(listeners), j \in 1 .. Len(events) :
        /\ IsLive(listeners[k])
        /\ events[j].target = listeners[k].object
        /\ events[j].kind = "ButtonUp"
        /\ events[j].button = "Left"
        /\ events[j].previous_state = "Hovered"
        /\ listeners[k].is_hovered
        /\ dispatch_state[listeners[k].object] = "Hovered"

(* A pressed button whose listener is hovered *)
C32_WitnessPressed ==
    \E k \in 1 .. Len(listeners) :
        /\ IsLive(listeners[k])
        /\ listeners[k].is_hovered
        /\ dispatch_state[listeners[k].object] = "Pressed"

----------------------------------------------------------------------------
(* C33: a stack without gaps and without fixed padding *)

(* The stack was laid out with no gap to divide the slack by: no recorded  *)
(* subview, or one in an Interpadded stack, and no fixed padding           *)
ZeroGaps ==
    /\ stack_bounds # NoBounds
    /\ fixed_padding = NoPadding
    /\ NPaddings(Len(subview_sizes), padding_type) = 0

(* All four numbers of a rectangle are finite *)
FiniteBounds(b) ==
    /\ IsFinite(b.origin[1]) /\ IsFinite(b.origin[2])
    /\ IsFinite(b.size[1]) /\ IsFinite(b.size[2])

(* C33: a stack laid out with zero gaps and no fixed padding places at     *)
(* most one child; the child starts at the leading edge of the bounds with *)
(* its preferred alpha length, or the bounds' if that is shorter, and its  *)
(* rectangle is finite: slack / 0 reaches neither its offset nor its size. *)
C33_ZeroGapsFinite ==
    ZeroGaps =>
        /\ Len(subview_bounds) = Len(subview_sizes)
        /\ Len(subview_bounds) <= 1
        /\ \A i \in 1 .. Len(subview_bounds) :
               /\ FiniteBounds(subview_bounds[i])
               /\ PlacedStart(i) = F(0)
               /\ PlacedAlpha(i) =
                      FMin(Alpha(axis, subview_sizes[i]), BoundsAlpha)

(* A Stack of one subview, Interpadded and without fixed padding, was laid *)
(* out in bounds longer than the subview: the slack is divided by zero     *)
C33_Witness ==
    /\ ZeroGaps
    /\ stack_kind = "Stack"
    /\ Len(subview_bounds) = 1
    /\ FLt(Alpha(axis, subview_sizes[1]), BoundsAlpha)

(* The same for a StackView *)
C33_WitnessStackView ==
    /\ ZeroGaps
    /\ stack_kind = "StackView"
    /\ Len(subview_bounds) = 1
    /\ FLt(Alpha(axis, subview_sizes[1]), BoundsAlpha)

(* The bounds are exactly as long as the subview: the quotient is 0 / 0 *)
C33_WitnessNoSlack ==
    /\ ZeroGaps
    /\ Len(subview_bounds) = 1
    /\ Alpha(axis, subview_sizes[1]) = BoundsAlpha

----------------------------------------------------------------------------
(* C34: a StackView whose subviews outnumber the recorded sizes *)

(* The last operation was an apply_bounds of a StackView *)
StackViewLaidOut ==
    stack_kind = "StackView" /\ stack_bounds # NoBounds

(* C34: an apply_bounds of a StackView that visits more subviews than the  *)
(* last preferred_size recorded sizes for (none, if there was no          *)
(* preferred_size) logs the warning and stops there: exactly the subviews  *)
(* with a recorded size were given bounds, each a finite rectangle no      *)
(* larger than its recorded size, and no size beyond the recorded ones is  *)
(* read.  With no more subviews than recorded sizes it logs nothing.       *)
C34_StopsWhenSizesRunOut ==
    StackViewLaidOut =>
        /\ n_subviews_warned <=> Len(subviews) > Len(subview_sizes)
        /\ Len(subviews) > Len(subview_sizes) =>
               /\ Len(subview_bounds) = Len(subview_sizes)
               /\ \A i \in 1 .. Len(subview_bounds) :
                      /\ FiniteBounds(subview_bounds[i])
                      /\ SizeMin(subview_bounds[i].size, subview_sizes[i]) =
                             subview_bounds[i].size

(* Sizes were recorded, the list grew, and the apply pass placed the       *)
(* recorded subviews and warned                                            *)
C34_Witness ==
    /\ StackViewLaidOut
    /\ n_subviews_warned
    /\ Len(subview_bounds) >= 1
    /\ Len(subviews) > Len(subview_bounds)

(* apply_bounds with no preceding preferred_size: nothing placed *)
C34_WitnessUnmeasured ==
    /\ StackViewLaidOut
    /\ n_subviews_warned
    /\ subview_sizes = <<>>
    /\ subview_bounds = <<>>

----------------------------------------------------------------------------
(* C35: the rectangles a stack gives its children *)

(* Rectangle b has non-negative lengths and lies within rectangle outer *)
Within(b, outer) ==
    \A k \in 1 .. 2 :
        /\ FLe(F(0), b.size[k])
        /\ FLe(outer.origin[k], b.origin[k])
        /\ FLe(FAdd(b.origin[k], b.size[k]),
               FAdd(outer.origin[k], outer.size[k]))

(* The children follow one another along the layout axis *)
InListOrder ==
    \A i \in 2 .. Len(subview_bounds) : FLe(PlacedEnd(i - 1), PlacedStart(i))

(* Every child's rectangle is within the stack's bounds, in list order *)
ChildrenWithinInOrder ==
    /\ \A i \in 1 .. Len(subview_bounds) :
           Within(subview_bounds[i], stack_bounds)
    /\ InListOrder

(* C35: whatever bounds a stack is given, every rectangle it assigns to a  *)
(* child has non-negative width and height and lies within the bounds, and *)
(* every child starts at or after the end of the child before it.          *)
C35_ChildrenWithinBounds ==
    stack_bounds # NoBounds => ChildrenWithinInOrder

(* The same for the Stack of layout/stack.rs alone *)
StackChildrenWithinBounds ==
    StackLaidOut => ChildrenWithinInOrder

(* The same for StackView in bounds at least as long as the children and   *)
(* their fixed paddings                                                    *)
StackViewChildrenWithinLongBounds ==
    (/\ StackViewLaidOut
     /\ subview_sizes = subviews
     /\ FLe(MinAlpha, BoundsAlpha)) => ChildrenWithinInOrder

(* A StackView gave a child a negative length *)
StackViewNegativeLength ==
    /\ StackViewLaidOut
    /\ \E i \in 1 .. Len(subview_bounds) : \E k \in 1 .. 2 :
           FLt(subview_bounds[i].size[k], F(0))

(* A StackView placed a child past its max edge *)
StackViewPastBounds ==
    /\ StackViewLaidOut
    /\ \E i \in 1 .. Len(subview_bounds) :
           ~Within(subview_bounds[i], stack_bounds)

----------------------------------------------------------------------------
(* C36: a container axis with Spread on exactly one edge *)

(* The leading and the trailing padding policy of axis k *)
LeadingOf(k) ==
    IF k = 1 THEN padding_left ELSE padding_top

TrailingOf(k) ==
    IF k = 1 THEN padding_right ELSE padding_bottom

(* Exactly one edge of axis k is Spread *)
OneSpread(k) ==
    (LeadingOf(k) = Spread) # (TrailingOf(k) = Spread)

(* The edge of axis k that is not Spread *)
NonSpreadOf(k) ==
    IF LeadingOf(k) = Spread THEN TrailingOf(k) ELSE LeadingOf(k)

(* The value of a Fixed or RatioOfViewSize policy around a subview of the  *)
(* given length                                                            *)
PolicyValue(padding, length) ==
    IF padding.kind = "Fixed" THEN padding.value
    ELSE FMul(padding.value, length)

(* The length the subview is laid out with on axis k *)
LaidOutLength(k) ==
    FMin(RequestedSize[k],
         FMax(FSub(container_bounds.size[k], AsFixedOrZero(NonSpreadOf(k))),
              F(0)))

(* The bounds hold the requested subview and the non-Spread padding *)
LargeEnough(k) ==
    FLe(FAdd(RequestedSize[k], PolicyValue(NonSpreadOf(k), RequestedSize[k])),
        container_bounds.size[k])

(* The subview is placed after the leading padding: the policy value of a  *)
(* non-Spread leading edge, the remaining length minus the trailing policy *)
(* value under a Spread leading edge                                       *)
LeadingPlaced(k) ==
    LET length == LaidOutLength(k)
        remaining == FMax(FSub(container_bounds.size[k], length), F(0))
        value == PolicyValue(NonSpreadOf(k), length)
    IN  LeadingGap(k) =
            IF LeadingOf(k) = Spread THEN FSub(remaining, value) ELSE value

(* In bounds large enough the subview keeps its requested length, the      *)
(* non-Spread edge has its policy value and the Spread edge the rest       *)
FillsLargeBounds(k) ==
    LET value == PolicyValue(NonSpreadOf(k), RequestedSize[k])
        rest == FSub(FSub(container_bounds.size[k], RequestedSize[k]), value)
    IN  /\ container_subview_bounds.size[k] = RequestedSize[k]
        /\ LeadingGap(k) = IF LeadingOf(k) = Spread THEN rest ELSE value
        /\ TrailingGap(k) = IF LeadingOf(k) = Spread THEN value ELSE rest

(* C36: on a container axis with exactly one Spread edge, the other edge   *)
(* gets its policy value (f, or r times the subview length) and the Spread *)
(* edge the remaining length minus that value; in bounds that hold the     *)
(* requested subview and the non-Spread padding, the two paddings and the  *)
(* subview fill the bounds and the subview keeps its requested length.     *)
C36_LoneSpreadTakesTheRest ==
    container_bounds # NoBounds =>
        \A k \in 1 .. 2 :
            OneSpread(k) =>
                /\ LeadingPlaced(k)
                /\ LargeEnough(k) => FillsLargeBounds(k)

(* A container laid out with a fixed padding before and Spread after a     *)
(* subview, in bounds with room to spare                                   *)
C36_Witness ==
    /\ container_bounds # NoBounds
    /\ padding_left = Fixed(F(30))
    /\ padding_right = Spread
    /\ LargeEnough(1)
    /\ FLt(F(0), TrailingGap(1))

(* Spread before and a ratio padding after the subview *)
C36_WitnessSpreadLeading ==
    /\ container_bounds # NoBounds
    /\ padding_top = Spread
    /\ padding_bottom = RatioOfViewSize(<<1, 2>>)
    /\ LargeEnough(2)
    /\ FLt(F(0), LeadingGap(2))

(* Bounds too small for the subview and its fixed padding *)
C36_WitnessSmallBounds ==
    /\ container_bounds # NoBounds
    /\ OneSpread(1)
    /\ ~LargeEnough(1)

----------------------------------------------------------------------------
(* C37: the bounds UiContext::prepare_view gives the root view *)

(* UiContext::prepare_view has just returned root_bounds *)
RootPrepared ==
    root_context = "UiContext"

(* The origin lies within the canvas *)
OriginWithinCanvas ==
    \A k \in 1 .. 2 :
        /\ FLe(F(0), root_bounds.origin[k])
        /\ FLe(root_bounds.origin[k], canvas_size[k])

(* The root bounds end at or before the canvas' max edge on axis k *)
RootEndsWithinCanvas(k) ==
    FLe(FAdd(root_bounds.origin[k], root_bounds.size[k]), canvas_size[k])

(* The root bounds are no larger than the view's preferred size *)
RootWithinRequested ==
    \A k \in 1 .. 2 : FLe(root_bounds.size[k], root_requested[k])

(* C37: for every origin within the canvas, the bounds                     *)
(* UiContext::prepare_view assigns to the root view lie inside the canvas  *)
(* on both axes (origin.x + width <= canvas width, origin.y + height <=    *)
(* canvas height) and are no larger than the view's preferred size.        *)
C37_RootBoundsInsideCanvas ==
    (RootPrepared /\ OriginWithinCanvas) =>
        /\ RootEndsWithinCanvas(1)
        /\ RootEndsWithinCanvas(2)
        /\ RootWithinRequested

(* What does hold: inside the canvas horizontally, and no larger than the  *)
(* preferred size                                                          *)
RootBoundsInsideCanvasWidth ==
    (RootPrepared /\ OriginWithinCanvas) =>
        /\ RootEndsWithinCanvas(1)
        /\ RootWithinRequested

(* The root view was given bounds that end below the canvas *)
RootBelowCanvas ==
    /\ RootPrepared
    /\ OriginWithinCanvas
    /\ ~RootEndsWithinCanvas(2)

----------------------------------------------------------------------------
(* C38: the order in which the router's locks are taken *)

(* No dispatch callback has called back into the router: a callback that   *)
(* did never returns (C16), so its callback_op stays                       *)
NoReentry ==
    \A t \in Threads : callback_op[t] = "none"

(* The locks thread t holds *)
LocksHeld(t) ==
    {l \in Locks : lock_owner[l] = t}

(* Thread t is at a lock() call on a Mutex that is not free *)
Blocked(t) ==
    /\ Wants(thread_pc[t]) # "none"
    /\ ~CanAcquire(lock_owner[Wants(thread_pc[t])], t)

(* Every thread of S waits for a lock that a thread of S holds *)
Deadlocked(S) ==
    \A t \in S :
        /\ Blocked(t)
        /\ lock_owner[Wants(thread_pc[t])] \in S

(* A thread at a lock() call holds nothing, or holds the listener table    *)
(* and asks for the raw button states                                      *)
LockOrder(t) ==
    Wants(thread_pc[t]) # "none" =>
        \/ LocksHeld(t) = {}
        \/ LocksHeld(t) = {"listeners"} /\ Wants(thread_pc[t]) = "button_states"

(* C38: when window_event, register_listener, update_bounds and handle     *)
(* drops run on several threads and no dispatch callback calls back into   *)
(* the router, no set of threads waits for one another; the only lock      *)
(* taken while another is held is button_states under listeners, and the   *)
(* cursor-position lock is never held while another is taken.              *)
C38_NoDeadlockWithoutReentry ==
    NoReentry =>
        /\ \A S \in SUBSET Threads : S # {} => ~Deadlocked(S)
        /\ \A t \in Threads : LockOrder(t)

(* One thread scans holding both locks while another waits to register a   *)
(* listener                                                                *)
C38_Witness ==
    /\ NoReentry
    /\ \E t, u \in Threads :
           /\ thread_pc[t] = "scan.loop"
           /\ LocksHeld(t) = {"listeners", "button_states"}
           /\ thread_op[u] = "register_listener"
           /\ Blocked(u)

(* A scanning thread holding the listener table waits for the raw button   *)
(* states, which a MouseInput on another thread holds                      *)
C38_WitnessNested ==
    /\ NoReentry
    /\ \E t, u \in Threads :
           /\ thread_pc[t] = "scan.buttons.lock"
           /\ LocksHeld(t) = {"listeners"}
           /\ Blocked(t)
           /\ thread_pc[u] = "input.unlock"

(* With a callback that calls back into the router, its thread waits for   *)
(* itself                                                                  *)
C38_WitnessReentry ==
    \E t \in Threads : Deadlocked({t})

----------------------------------------------------------------------------
(* LazyAppRunner: the ApplicationHandler that constructs the app on the    *)
(* first `resumed`                                                         *)

(* The callbacks of ApplicationHandler that only forward *)
ForwardingCallbacks ==
    {"window_event", "new_events", "user_event", "device_event",
     "about_to_wait", "suspended", "exiting", "memory_warning"}

(* Mutant: the callback reaches the app whether or not one exists *)
ForwardedAlways(instance, calls, callback) ==
    Append(calls, <<callback, instance>>)

(* if let Some(app) = self.app.as_mut() { app.callback(..) } *)
Forwarded(instance, calls, callback) ==
    IF instance # NoApp THEN Append(calls, <<callback, instance>>) ELSE calls

LazyRunning ==
    ~runner_panicked /\ Len(received) < MaxCallbacks

(* resumed: get_or_insert_with constructs the app from the init context    *)
(* when there is none, init_context.take().unwrap() panics on None; then   *)
(* the callback goes to the app                                            *)
LazyResumed ==
    /\ LazyRunning
    /\ received' = Append(received, "resumed")
    /\ IF app # NoApp
       THEN /\ app_calls' = Append(app_calls, <<"resumed", app>>)
            /\ UNCHANGED <<init_context, app, apps_new, runner_panicked>>
       ELSE IF init_context
            THEN /\ init_context' = FALSE
                 /\ apps_new' = apps_new + 1
                 /\ app' = apps_new + 1
                 /\ app_calls' = Append(app_calls, <<"resumed", app'>>)
                 /\ UNCHANGED runner_panicked
            ELSE /\ runner_panicked' = TRUE
                 /\ UNCHANGED <<init_context, app, apps_new, app_calls>>
    /\ UNCHANGED <<routerVars, buttonVars, lockVars, viewVars, stackVars,
                   containerVars, buttonViewVars>>

(* A callback other than resumed *)
LazyForward(callback) ==
    /\ LazyRunning
    /\ received' = Append(received, callback)
    /\ app_calls' = Forwarded(app, app_calls, callback)
    /\ UNCHANGED <<init_context, app, apps_new, runner_panicked>>
    /\ UNCHANGED <<routerVars, buttonVars, lockVars, viewVars, stackVars,
                   containerVars, buttonViewVars>>

LazyWindowEvent ==
    LazyForward("window_event")

LazyNewEvents ==
    LazyForward("new_events")

LazyUserEvent ==
    LazyForward("user_event")

LazyDeviceEvent ==
    LazyForward("device_event")

LazyAboutToWait ==
    LazyForward("about_to_wait")

LazySuspended ==
    LazyForward("suspended")

LazyExiting ==
    LazyForward("exiting")

LazyMemoryWarning ==
    LazyForward("memory_warning")

LazyNext ==
    \/ LazyResumed
    \/ LazyWindowEvent
    \/ LazyNewEvents
    \/ LazyUserEvent
    \/ LazyDeviceEvent
    \/ LazyAboutToWait
    \/ LazySuspended
    \/ LazyExiting
    \/ LazyMemoryWarning

SpecLazy ==
    Init /\ [][LazyNext]_vars

(* The callbacks received from the first resumed on *)
RECURSIVE FromFirstResumed(_)
FromFirstResumed(calls) ==
    IF calls = <<>> THEN <<>>
    ELSE IF Head(calls) = "resumed" THEN calls
    ELSE FromFirstResumed(Tail(calls))

(* C39: LazyAppRunner constructs the app exactly once, at the first        *)
(* resumed, and never panics; the init context is present exactly when the *)
(* app has not been constructed; the callbacks received before the first   *)
(* resumed are dropped and construct nothing, and every callback from the  *)
(* first resumed on, later resumed calls included, is forwarded in order   *)
(* to that one app instance.                                               *)
C39_ConstructedOnceAtFirstResumed ==
    LET since == FromFirstResumed(received)
    IN  /\ ~runner_panicked
        /\ init_context <=> app = NoApp
        /\ apps_new = IF since = <<>> THEN 0 ELSE 1
        /\ app = apps_new
        /\ app_calls = [i \in 1 .. Len(since) |-> <<since[i], 1>>]

(* Callbacks were dropped before the first resumed, and forwarded after *)
(* it, a second resumed among them                                         *)
C39_Witness ==
    /\ Len(received) = 3
    /\ received[1] # "resumed"
    /\ received[2] = "resumed"
    /\ received[3] = "resumed"
    /\ Len(app_calls) = 2

(* Nothing but dropped callbacks so far *)
C39_WitnessDropped ==
    /\ Len(received) = 2
    /\ app = NoApp
    /\ init_context
    /\ app_calls = <<>>
====
